---- MODULE Spec2Model ----
(***************************************************************************)
(* State-machine model of the two interpreters of this repository:         *)
(*   - Nessy  (src/nessy.c): 6502 core, CPU bus, PPU registers and clock,  *)
(*     iNES loader;                                                        *)
(*   - DuoVM  (src/duovm.c): memory, single-step decoder, cursor.          *)
(*                                                                         *)
(* Byte arrays that the code zero-fills (memset / static storage) are kept *)
(* as finite maps from the non-zero cells to their bytes; a cell outside   *)
(* the map reads 0.  The encoding is exact: Rd/Wr below are the array read *)
(* and the array write.  The PPU framebuffer is never written by any code  *)
(* path and is therefore not carried.                                      *)
(***************************************************************************)
EXTENDS Integers, Sequences, FiniteSets, TLC

VARIABLES
    \* ---- Nessy: NES aggregate (src/nessy.c:64-69)
    cpu, ppu, vram, palette, oam, cart, ram,
    \* ---- Nessy: value returned by the last cpu_read issued on the bus
    bus_value,
    \* ---- Nessy: history of the run (counters of calls, latch history)
    cpu_steps, ppu_steps, read_since_vblank, latch_hist, bus_accesses,
    \* ---- Nessy: loader (src/nessy.c:1458-1492, 1526-1532)
    image, load_state, prg_copied, chr_copied,
    \* ---- DuoVM (src/duovm.c:15-31)
    memory, loaded, PC, A, T, D0, D1, C, running, waiting_key, cur_x, cur_y,
    \* ---- DuoVM: process exit and history
    vm_exit, duo_steps, last_store,
    \* ---- DuoVM: position of main in its driver loop, the loop variable i
    \* of the burst (src/duovm.c:241-244), and the number of input
    \* instructions the current burst has executed
    duo_pc, burst_i, burst_inputs,
    \* ---- Nessy: locals of main's frame loop (src/nessy.c:1538-1564) and
    \* the position of main in it
    drv_pc, frames, rendered, last_scanline,
    \* ---- Nessy: history of the frame loop (iterations completed, NMI edges
    \* raised by ppu_step, NMIs serviced, scanline wraps, CPU registers at
    \* the start of the instruction executed last)
    iterations, nmi_raised, nmi_serviced, wraps, cpu_prev,
    \* ---- a second run of both programs on the same ROM, initial memory and
    \* button stream: [load_state, nes, vm]
    twin

nesVars  == <<cpu, ppu, vram, palette, oam, cart, ram, bus_value>>
histVars == <<cpu_steps, ppu_steps, read_since_vblank, latch_hist,
              bus_accesses>>
inesVars == <<image, load_state, prg_copied, chr_copied>>
duoVars  == <<memory, loaded, PC, A, T, D0, D1, C, running, waiting_key,
              cur_x, cur_y, vm_exit, duo_steps, last_store,
              duo_pc, burst_i, burst_inputs>>
drvVars  == <<drv_pc, frames, rendered, last_scanline, iterations,
              nmi_raised, nmi_serviced, wraps, cpu_prev, twin>>
vars     == <<nesVars, histVars, inesVars, duoVars, drvVars>>

(***************************************************************************)
(* Machine arithmetic                                                      *)
(***************************************************************************)
RECURSIVE And(_, _)
And(x, y) == IF x = 0 \/ y = 0 THEN 0
             ELSE (x % 2) * (y % 2) + 2 * And(x \div 2, y \div 2)

RECURSIVE Or(_, _)
Or(x, y) == IF x = 0 THEN y
            ELSE IF y = 0 THEN x
            ELSE (IF x % 2 = 1 \/ y % 2 = 1 THEN 1 ELSE 0)
                 + 2 * Or(x \div 2, y \div 2)

RECURSIVE Xor(_, _)
Xor(x, y) == IF x = 0 THEN y
             ELSE IF y = 0 THEN x
             ELSE ((x + y) % 2) + 2 * Xor(x \div 2, y \div 2)

\* single-bit and bit-field forms of & and |, b and n powers of two
HasBit(x, b) == (x \div b) % 2 = 1               \* (x & b) != 0
SetBit(x, b) == IF HasBit(x, b) THEN x ELSE x + b \* x | b
ClrBit(x, b) == IF HasBit(x, b) THEN x - b ELSE x \* x & ~b
\* (x & ~((n-1)*lo)) | (v*lo) for v < n: the n-valued field at weight lo
WithField(x, lo, n, v) == x - ((x \div lo) % n) * lo + v * lo

U8(x)  == x % 256
U16(x) == x % 65536

\* zero-filled byte array as a finite map of its non-zero cells
EmptyMem == [x \in {} |-> 0]
Rd(m, a) == IF a \in DOMAIN m THEN m[a] ELSE 0
Wr(m, a, v) == IF v = 0
               THEN [x \in DOMAIN m \ {a} |-> m[x]]
               ELSE [x \in DOMAIN m \cup {a} |-> IF x = a THEN v ELSE m[x]]

(***************************************************************************)
(* Nessy constants                                                         *)
(***************************************************************************)
PRG_ROM_BANK_SIZE == 16384
CHR_ROM_BANK_SIZE == 8192

FLAG_CARRY     == 1
FLAG_ZERO      == 2
FLAG_INTERRUPT == 4
FLAG_DECIMAL   == 8
FLAG_BREAK     == 16
FLAG_UNUSED    == 32
FLAG_OVERFLOW  == 64
FLAG_NEGATIVE  == 128

PPU_CYCLES_PER_LINE == 341
PPU_LINES           == 262
PPU_VBLANK_LINE     == 241
PPU_FRAME           == PPU_CYCLES_PER_LINE * PPU_LINES

(***************************************************************************)
(* Nessy: reset                                                            *)
(***************************************************************************)
ppu_reset ==
    [ctrl |-> 0, mask |-> 0, status |-> 160, oam_addr |-> 0,
     scroll_latch |-> 0, addr_latch |-> 0, vram_addr |-> 0, temp_addr |-> 0,
     fine_x |-> 0, read_buffer |-> 0, scanline |-> 0, cycle |-> 0,
     nmi_triggered |-> FALSE]

cpu_reset(reset_vector) ==
    [a |-> 0, x |-> 0, y |-> 0, sp |-> 253,
     p |-> Or(FLAG_INTERRUPT, FLAG_UNUSED), pc |-> reset_vector, cycles |-> 7]

(***************************************************************************)
(* Nessy: PPU bus.  n is the NES aggregate                                 *)
(*   [cpu, ppu, vram, palette, oam, cart, ram].                            *)
(***************************************************************************)
ppu_mirror_vram_addr(addr) ==
    LET a == And(addr, 12287)
    IN  IF a >= 12288 /\ a <= 16127 THEN a - 4096 ELSE a

ppu_read(n, addr0) ==
    LET addr == And(addr0, 16383)
    IN  IF addr < 8192
        THEN IF n.cart.chr_rom_size = 0 THEN 0
             ELSE Rd(n.cart.chr_rom, addr % n.cart.chr_rom_size)
        ELSE IF addr < 16128
        THEN Rd(n.vram, And(ppu_mirror_vram_addr(addr), 2047))
        ELSE Rd(n.palette, And(addr, 31))

ppu_write(n, addr0, value) ==
    LET addr == And(addr0, 16383)
    IN  IF addr < 8192
        THEN IF n.cart.chr_rom_size = 0 THEN n
             ELSE [n EXCEPT !.cart.chr_rom =
                       Wr(@, addr % n.cart.chr_rom_size, value)]
        ELSE IF addr < 16128
        THEN [n EXCEPT !.vram =
                  Wr(@, And(ppu_mirror_vram_addr(addr), 2047), value)]
        ELSE [n EXCEPT !.palette = Wr(@, And(addr, 31), value)]

\* variant of vram_increment that ignores ctrl bit 2
vram_increment_one(ctrl) == 1

vram_increment(ctrl) == IF HasBit(ctrl, 4) THEN 32 ELSE 1

\* variant of read_status that leaves bit 7 set
read_status_keep(n) ==
    [v |-> n.ppu.status, n |-> [n EXCEPT !.ppu.addr_latch = 0]]

\* case 2 of ppu_read_register
read_status(n) ==
    [v |-> n.ppu.status,
     n |-> [n EXCEPT !.ppu.status = ClrBit(@, 128), !.ppu.addr_latch = 0]]

\* returns [v |-> byte read, n |-> machine after the read's side effects]
ppu_read_register(n, addr) ==
    LET reg == addr % 8
    IN  CASE reg = 2 -> read_status(n)
          [] reg = 4 ->
               [v |-> Rd(n.oam, n.ppu.oam_addr), n |-> n]
          [] reg = 7 ->
               LET vram_addr == n.ppu.vram_addr
                   value     == ppu_read(n, vram_addr)
                   next      == U16(vram_addr + vram_increment(n.ppu.ctrl))
               IN  IF vram_addr < 16128
                   THEN [v |-> n.ppu.read_buffer,
                         n |-> [n EXCEPT !.ppu.read_buffer = value,
                                         !.ppu.vram_addr = next]]
                   ELSE [v |-> value,
                         n |-> [n EXCEPT !.ppu.read_buffer =
                                             ppu_read(n, U16(vram_addr - 4096)),
                                         !.ppu.vram_addr = next]]
          [] OTHER -> [v |-> 0, n |-> n]

\* register 5, first and second write
scroll_first(p, value) ==
    [p EXCEPT !.fine_x = value % 8,
              !.temp_addr = WithField(@, 1, 32, value \div 8),
              !.scroll_latch = 1]

scroll_second(p, value) ==
    [p EXCEPT !.temp_addr =
                  WithField(WithField(@, 4096, 8, value % 8),
                            32, 32, value \div 8),
              !.scroll_latch = 0]

\* register 6, first and second write
\* variant of addr_first that keeps all eight bits of the high byte
addr_first_unmasked(p, value) ==
    [p EXCEPT !.temp_addr = WithField(@, 256, 256, value),
              !.addr_latch = 1]

addr_first(p, value) ==
    [p EXCEPT !.temp_addr = WithField(@, 256, 256, value % 64),
              !.addr_latch = 1]

addr_second(p, value) ==
    LET t == WithField(p.temp_addr, 1, 256, value)
    IN  [p EXCEPT !.temp_addr = t, !.vram_addr = t, !.addr_latch = 0]

\* variant of write_ctrl that raises the NMI edge when bit 7 is written
\* while the VBlank bit is set
write_ctrl_nmi(n, value) ==
    [n EXCEPT !.ppu.ctrl = value,
              !.ppu.temp_addr = WithField(@, 1024, 4, value % 4),
              !.ppu.nmi_triggered =
                  IF HasBit(value, 128) /\ HasBit(n.ppu.status, 128)
                  THEN TRUE ELSE @]

\* case 0 of ppu_write_register
write_ctrl(n, value) ==
    [n EXCEPT !.ppu.ctrl = value,
              !.ppu.temp_addr = WithField(@, 1024, 4, value % 4)]

ppu_write_register(n, addr, value) ==
    LET reg == addr % 8
    IN  CASE reg = 0 -> write_ctrl(n, value)
          [] reg = 1 -> [n EXCEPT !.ppu.mask = value]
          [] reg = 3 -> [n EXCEPT !.ppu.oam_addr = value]
          [] reg = 4 ->
               [n EXCEPT !.oam = Wr(@, n.ppu.oam_addr, value),
                         !.ppu.oam_addr = U8(@ + 1)]
          [] reg = 5 ->
               IF n.ppu.scroll_latch = 0
               THEN [n EXCEPT !.ppu = scroll_first(@, value)]
               ELSE [n EXCEPT !.ppu = scroll_second(@, value)]
          [] reg = 6 ->
               IF n.ppu.addr_latch = 0
               THEN [n EXCEPT !.ppu = addr_first(@, value)]
               ELSE [n EXCEPT !.ppu = addr_second(@, value)]
          [] reg = 7 ->
               LET w == ppu_write(n, n.ppu.vram_addr, value)
               IN  [w EXCEPT !.ppu.vram_addr =
                                 U16(@ + vram_increment(n.ppu.ctrl))]
          [] OTHER -> n

\* variant of ppu_step whose scanlines are one cycle longer
ppu_step_long_line(p) ==
    IF p.cycle + 1 > PPU_CYCLES_PER_LINE
    THEN LET line == p.scanline + 1
             p1 == [p EXCEPT !.cycle = 0, !.scanline = line]
             p2 == IF line = PPU_VBLANK_LINE
                   THEN [p1 EXCEPT !.status = SetBit(@, 128),
                                   !.nmi_triggered =
                                       IF HasBit(p.ctrl, 128) THEN TRUE ELSE @]
                   ELSE p1
         IN  IF line >= PPU_LINES
             THEN [p2 EXCEPT !.scanline = 0, !.status = ClrBit(@, 128),
                             !.nmi_triggered = FALSE]
             ELSE p2
    ELSE [p EXCEPT !.cycle = @ + 1]

\* variant of ppu_step that enters VBlank on scanline 1
ppu_step_line1(p) ==
    IF p.cycle + 1 >= PPU_CYCLES_PER_LINE
    THEN LET line == p.scanline + 1
             p1 == [p EXCEPT !.cycle = 0, !.scanline = line]
             p2 == IF line = 1
                   THEN [p1 EXCEPT !.status = SetBit(@, 128),
                                   !.nmi_triggered =
                                       IF HasBit(p.ctrl, 128) THEN TRUE ELSE @]
                   ELSE p1
         IN  IF line >= PPU_LINES
             THEN [p2 EXCEPT !.scanline = 0, !.status = ClrBit(@, 128),
                             !.nmi_triggered = FALSE]
             ELSE p2
    ELSE [p EXCEPT !.cycle = @ + 1]

\* one PPU clock; p is the PPU record
ppu_step(p) ==
    IF p.cycle + 1 >= PPU_CYCLES_PER_LINE
    THEN LET line == p.scanline + 1
             p1 == [p EXCEPT !.cycle = 0, !.scanline = line]
             p2 == IF line = PPU_VBLANK_LINE
                   THEN [p1 EXCEPT !.status = SetBit(@, 128),
                                   !.nmi_triggered =
                                       IF HasBit(p.ctrl, 128) THEN TRUE ELSE @]
                   ELSE p1
         IN  IF line >= PPU_LINES
             THEN [p2 EXCEPT !.scanline = 0, !.status = ClrBit(@, 128),
                             !.nmi_triggered = FALSE]
             ELSE p2
    ELSE [p EXCEPT !.cycle = @ + 1]

(***************************************************************************)
(* Nessy: CPU bus                                                          *)
(***************************************************************************)
\* variant of cpu_read that indexes the RAM with the whole address
cpu_read_unmirrored(n, addr) ==
    IF addr < 8192 THEN [v |-> Rd(n.ram, addr), n |-> n]
    ELSE IF addr < 16384 THEN ppu_read_register(n, addr)
    ELSE IF addr >= 32768
    THEN [v |-> Rd(n.cart.prg_rom,
                   IF n.cart.prg_rom_size = PRG_ROM_BANK_SIZE
                   THEN (addr - 32768) % PRG_ROM_BANK_SIZE
                   ELSE (addr - 32768) % n.cart.prg_rom_size),
          n |-> n]
    ELSE [v |-> 0, n |-> n]

cpu_read(n, addr) ==
    IF addr < 8192 THEN [v |-> Rd(n.ram, addr % 2048), n |-> n]
    ELSE IF addr < 16384 THEN ppu_read_register(n, addr)
    ELSE IF addr >= 32768
    THEN [v |-> Rd(n.cart.prg_rom,
                   IF n.cart.prg_rom_size = PRG_ROM_BANK_SIZE
                   THEN (addr - 32768) % PRG_ROM_BANK_SIZE
                   ELSE (addr - 32768) % n.cart.prg_rom_size),
          n |-> n]
    ELSE [v |-> 0, n |-> n]

cpu_write(n, addr, value) ==
    IF addr < 8192 THEN [n EXCEPT !.ram = Wr(@, addr % 2048, value)]
    ELSE IF addr < 16384 THEN ppu_write_register(n, addr, value)
    ELSE n

(***************************************************************************)
(* Nessy: CPU core                                                         *)
(***************************************************************************)
\* variant of cpu_pop that reads the byte before it increments SP
cpu_pop_post_increment(n) ==
    [v |-> Rd(n.ram, 256 + n.cpu.sp), n |-> [n EXCEPT !.cpu.sp = U8(@ + 1)]]

cpu_push(n, value) ==
    [n EXCEPT !.ram = Wr(@, 256 + n.cpu.sp, value),
              !.cpu.sp = U8(@ + 255)]

\* returns [v |-> popped byte, n |-> machine with SP incremented]
cpu_pop(n) ==
    LET sp == U8(n.cpu.sp + 1)
    IN  [v |-> Rd(n.ram, 256 + sp), n |-> [n EXCEPT !.cpu.sp = sp]]

SetFlag(p, flag, cond) == IF cond THEN Or(p, flag) ELSE And(p, 255 - flag)

\* status byte after cpu_set_zn
cpu_set_zn(p, value) ==
    SetFlag(SetFlag(p, FLAG_ZERO, value = 0),
            FLAG_NEGATIVE, And(value, 128) # 0)

\* variant of cpu_adc that ignores the carry flag on input
cpu_adc_no_carry_in(c, value) ==
    LET sum    == c.a + value
        p1     == SetFlag(c.p, FLAG_CARRY, sum > 255)
        result == U8(sum)
        p2     == SetFlag(p1, FLAG_OVERFLOW,
                      And(And(255 - Xor(c.a, value), Xor(c.a, result)), 128) # 0)
    IN  [c EXCEPT !.a = result, !.p = cpu_set_zn(p2, result)]

\* c is the CPU record
cpu_adc(c, value) ==
    LET sum    == c.a + value + (IF And(c.p, FLAG_CARRY) # 0 THEN 1 ELSE 0)
        p1     == SetFlag(c.p, FLAG_CARRY, sum > 255)
        result == U8(sum)
        p2     == SetFlag(p1, FLAG_OVERFLOW,
                      And(And(255 - Xor(c.a, value), Xor(c.a, result)), 128) # 0)
    IN  [c EXCEPT !.a = result, !.p = cpu_set_zn(p2, result)]

\* variant of cpu_sbc that adds the two's complement of value
cpu_sbc_negated(c, value) == cpu_adc(c, U8(256 - value))

cpu_sbc(c, value) == cpu_adc(c, 255 - value)

cpu_compare(c, reg, value) ==
    LET diff == U16(65536 + reg - value)
        p1   == SetFlag(c.p, FLAG_CARRY, reg >= value)
    IN  [c EXCEPT !.p = cpu_set_zn(p1, U8(diff))]

\* cpu_read(nes, cpu->pc++)
fetch(n) ==
    LET r == cpu_read(n, n.cpu.pc)
    IN  [v |-> r.v, n |-> [r.n EXCEPT !.cpu.pc = U16(@ + 1)]]

AddrResult(n, addr, page_crossed) ==
    [n |-> n, addr |-> addr, page_crossed |-> page_crossed]

PageOf(addr) == And(addr, 65280)

addr_immediate(n) ==
    AddrResult([n EXCEPT !.cpu.pc = U16(@ + 1)], n.cpu.pc, FALSE)

addr_zero_page(n) ==
    LET b == fetch(n) IN AddrResult(b.n, b.v, FALSE)

addr_zero_page_x(n) ==
    LET b == fetch(n) IN AddrResult(b.n, U8(b.v + b.n.cpu.x), FALSE)

addr_zero_page_y(n) ==
    LET b == fetch(n) IN AddrResult(b.n, U8(b.v + b.n.cpu.y), FALSE)

addr_absolute(n) ==
    LET lo == fetch(n)
        hi == fetch(lo.n)
    IN  AddrResult(hi.n, Or(hi.v * 256, lo.v), FALSE)

addr_absolute_x(n) ==
    LET lo   == fetch(n)
        hi   == fetch(lo.n)
        base == Or(hi.v * 256, lo.v)
        addr == U16(base + hi.n.cpu.x)
    IN  AddrResult(hi.n, addr, PageOf(addr) # PageOf(base))

addr_absolute_y(n) ==
    LET lo   == fetch(n)
        hi   == fetch(lo.n)
        base == Or(hi.v * 256, lo.v)
        addr == U16(base + hi.n.cpu.y)
    IN  AddrResult(hi.n, addr, PageOf(addr) # PageOf(base))

\* variant of addr_indirect that reads the high byte at ptr + 1
addr_indirect_linear(n) ==
    LET lo  == fetch(n)
        hi  == fetch(lo.n)
        ptr == Or(hi.v * 256, lo.v)
        l   == cpu_read(hi.n, ptr)
        h   == cpu_read(l.n, U16(ptr + 1))
    IN  AddrResult(h.n, Or(l.v, h.v * 256), FALSE)

\* The two reads of the pointer are side-effect free or hit at most one
\* side-effecting PPU register (2 and 7 are never adjacent in a page), so
\* the unspecified evaluation order of the C expression has one outcome.
addr_indirect(n) ==
    LET lo  == fetch(n)
        hi  == fetch(lo.n)
        ptr == Or(hi.v * 256, lo.v)
        l   == cpu_read(hi.n, ptr)
        h   == cpu_read(l.n, Or(And(ptr, 65280), And(ptr + 1, 255)))
    IN  AddrResult(h.n, Or(l.v, h.v * 256), FALSE)

addr_indexed_indirect(n) ==
    LET b   == fetch(n)
        ptr == U8(b.v + b.n.cpu.x)
        l   == cpu_read(b.n, ptr)
        h   == cpu_read(l.n, U8(ptr + 1))
    IN  AddrResult(h.n, Or(l.v, h.v * 256), FALSE)

addr_indirect_indexed(n) ==
    LET b     == fetch(n)
        l     == cpu_read(b.n, b.v)
        h     == cpu_read(l.n, U8(b.v + 1))
        addr  == Or(l.v, h.v * 256)
        final == U16(addr + h.n.cpu.y)
    IN  AddrResult(h.n, final, PageOf(final) # PageOf(addr))

Signed8(b) == IF b >= 128 THEN b - 256 ELSE b

\* variant of cpu_branch that compares the target's page with the page of
\* the branch opcode
cpu_branch_opcode_page(n, condition) ==
    LET b       == fetch(n)
        prev_pc == b.n.cpu.pc
        target  == U16(65536 + prev_pc + Signed8(b.v))
    IN  IF condition
        THEN [b.n EXCEPT !.cpu.pc = target,
                         !.cpu.cycles =
                             @ + 1 + (IF PageOf(U16(prev_pc + 65534)) # PageOf(target)
                                      THEN 1 ELSE 0)]
        ELSE b.n

cpu_branch(n, condition) ==
    LET b       == fetch(n)
        prev_pc == b.n.cpu.pc
        target  == U16(65536 + prev_pc + Signed8(b.v))
    IN  IF condition
        THEN [b.n EXCEPT !.cpu.pc = target,
                         !.cpu.cycles =
                             @ + 1 + (IF PageOf(prev_pc) # PageOf(target)
                                      THEN 1 ELSE 0)]
        ELSE b.n

\* variant of cpu_nmi that pushes P as it is
cpu_nmi_pushes_break(n) ==
    LET n1 == cpu_push(n, n.cpu.pc \div 256)
        n2 == cpu_push(n1, And(n.cpu.pc, 255))
        n3 == cpu_push(n2, n.cpu.p)
        n4 == [n3 EXCEPT !.cpu.p = Or(@, FLAG_INTERRUPT)]
        lo == cpu_read(n4, 65530)
        hi == cpu_read(lo.n, 65531)
    IN  [hi.n EXCEPT !.cpu.pc = Or(hi.v * 256, lo.v)]

\* variant of cpu_nmi that pushes the low byte of PC before the high byte
cpu_nmi_low_first(n) ==
    LET n1 == cpu_push(n, And(n.cpu.pc, 255))
        n2 == cpu_push(n1, n.cpu.pc \div 256)
        n3 == cpu_push(n2, And(n.cpu.p, 255 - FLAG_BREAK))
        n4 == [n3 EXCEPT !.cpu.p = Or(@, FLAG_INTERRUPT)]
        lo == cpu_read(n4, 65530)
        hi == cpu_read(lo.n, 65531)
    IN  [hi.n EXCEPT !.cpu.pc = Or(hi.v * 256, lo.v)]

cpu_nmi(n) ==
    LET n1 == cpu_push(n, n.cpu.pc \div 256)
        n2 == cpu_push(n1, And(n.cpu.pc, 255))
        n3 == cpu_push(n2, And(n.cpu.p, 255 - FLAG_BREAK))
        n4 == [n3 EXCEPT !.cpu.p = Or(@, FLAG_INTERRUPT)]
        lo == cpu_read(n4, 65530)
        hi == cpu_read(lo.n, 65531)
    IN  [hi.n EXCEPT !.cpu.pc = Or(hi.v * 256, lo.v)]

\* variant of I in which the default case costs 3 cycles
I_default_three(mn, mode, cycles, penalty) ==
    [mn |-> mn, mode |-> mode,
     cycles |-> IF mn = "unknown" THEN 3 ELSE cycles, penalty |-> penalty]

\* the (operation, addressing mode, base cycles, page-cross penalty) of each
\* case of the switch in cpu_step; OTHER is the default case
I(mn, mode, cycles, penalty) ==
    [mn |-> mn, mode |-> mode, cycles |-> cycles, penalty |-> penalty]

OpInfo(op) ==
    CASE op = 0 -> I("BRK", "implied", 7, FALSE)
      [] op = 1 -> I("ORA", "indexed_indirect", 6, FALSE)
      [] op = 5 -> I("ORA", "zero_page", 3, FALSE)
      [] op = 6 -> I("ASL", "zero_page", 5, FALSE)
      [] op = 8 -> I("PHP", "implied", 3, FALSE)
      [] op = 9 -> I("ORA", "immediate", 2, FALSE)
      [] op = 10 -> I("ASL_A", "implied", 2, FALSE)
      [] op = 13 -> I("ORA", "absolute", 4, FALSE)
      [] op = 14 -> I("ASL", "absolute", 6, FALSE)
      [] op = 16 -> I("BPL", "relative", 2, FALSE)
      [] op = 17 -> I("ORA", "indirect_indexed", 5, TRUE)
      [] op = 21 -> I("ORA", "zero_page_x", 4, FALSE)
      [] op = 22 -> I("ASL", "zero_page_x", 6, FALSE)
      [] op = 24 -> I("CLC", "implied", 2, FALSE)
      [] op = 25 -> I("ORA", "absolute_y", 4, TRUE)
      [] op = 29 -> I("ORA", "absolute_x", 4, TRUE)
      [] op = 30 -> I("ASL", "absolute_x", 7, FALSE)
      [] op = 32 -> I("JSR", "absolute", 6, FALSE)
      [] op = 33 -> I("AND", "indexed_indirect", 6, FALSE)
      [] op = 36 -> I("BIT", "zero_page", 3, FALSE)
      [] op = 37 -> I("AND", "zero_page", 3, FALSE)
      [] op = 38 -> I("ROL", "zero_page", 5, FALSE)
      [] op = 40 -> I("PLP", "implied", 4, FALSE)
      [] op = 41 -> I("AND", "immediate", 2, FALSE)
      [] op = 42 -> I("ROL_A", "implied", 2, FALSE)
      [] op = 44 -> I("BIT", "absolute", 4, FALSE)
      [] op = 45 -> I("AND", "absolute", 4, FALSE)
      [] op = 46 -> I("ROL", "absolute", 6, FALSE)
      [] op = 48 -> I("BMI", "relative", 2, FALSE)
      [] op = 49 -> I("AND", "indirect_indexed", 5, TRUE)
      [] op = 53 -> I("AND", "zero_page_x", 4, FALSE)
      [] op = 54 -> I("ROL", "zero_page_x", 6, FALSE)
      [] op = 56 -> I("SEC", "implied", 2, FALSE)
      [] op = 57 -> I("AND", "absolute_y", 4, TRUE)
      [] op = 61 -> I("AND", "absolute_x", 4, TRUE)
      [] op = 62 -> I("ROL", "absolute_x", 7, FALSE)
      [] op = 64 -> I("RTI", "implied", 6, FALSE)
      [] op = 65 -> I("EOR", "indexed_indirect", 6, FALSE)
      [] op = 69 -> I("EOR", "zero_page", 3, FALSE)
      [] op = 70 -> I("LSR", "zero_page", 5, FALSE)
      [] op = 72 -> I("PHA", "implied", 3, FALSE)
      [] op = 73 -> I("EOR", "immediate", 2, FALSE)
      [] op = 74 -> I("LSR_A", "implied", 2, FALSE)
      [] op = 76 -> I("JMP", "absolute", 3, FALSE)
      [] op = 77 -> I("EOR", "absolute", 4, FALSE)
      [] op = 78 -> I("LSR", "absolute", 6, FALSE)
      [] op = 80 -> I("BVC", "relative", 2, FALSE)
      [] op = 81 -> I("EOR", "indirect_indexed", 5, TRUE)
      [] op = 85 -> I("EOR", "zero_page_x", 4, FALSE)
      [] op = 86 -> I("LSR", "zero_page_x", 6, FALSE)
      [] op = 88 -> I("CLI", "implied", 2, FALSE)
      [] op = 89 -> I("EOR", "absolute_y", 4, TRUE)
      [] op = 93 -> I("EOR", "absolute_x", 4, TRUE)
      [] op = 94 -> I("LSR", "absolute_x", 7, FALSE)
      [] op = 96 -> I("RTS", "implied", 6, FALSE)
      [] op = 97 -> I("ADC", "indexed_indirect", 6, FALSE)
      [] op = 101 -> I("ADC", "zero_page", 3, FALSE)
      [] op = 102 -> I("ROR", "zero_page", 5, FALSE)
      [] op = 104 -> I("PLA", "implied", 4, FALSE)
      [] op = 105 -> I("ADC", "immediate", 2, FALSE)
      [] op = 106 -> I("ROR_A", "implied", 2, FALSE)
      [] op = 108 -> I("JMP", "indirect", 5, FALSE)
      [] op = 109 -> I("ADC", "absolute", 4, FALSE)
      [] op = 110 -> I("ROR", "absolute", 6, FALSE)
      [] op = 112 -> I("BVS", "relative", 2, FALSE)
      [] op = 113 -> I("ADC", "indirect_indexed", 5, TRUE)
      [] op = 117 -> I("ADC", "zero_page_x", 4, FALSE)
      [] op = 118 -> I("ROR", "zero_page_x", 6, FALSE)
      [] op = 120 -> I("SEI", "implied", 2, FALSE)
      [] op = 121 -> I("ADC", "absolute_y", 4, TRUE)
      [] op = 125 -> I("ADC", "absolute_x", 4, TRUE)
      [] op = 126 -> I("ROR", "absolute_x", 7, FALSE)
      [] op = 129 -> I("STA", "indexed_indirect", 6, FALSE)
      [] op = 132 -> I("STY", "zero_page", 3, FALSE)
      [] op = 133 -> I("STA", "zero_page", 3, FALSE)
      [] op = 134 -> I("STX", "zero_page", 3, FALSE)
      [] op = 136 -> I("DEY", "implied", 2, FALSE)
      [] op = 138 -> I("TXA", "implied", 2, FALSE)
      [] op = 140 -> I("STY", "absolute", 4, FALSE)
      [] op = 141 -> I("STA", "absolute", 4, FALSE)
      [] op = 142 -> I("STX", "absolute", 4, FALSE)
      [] op = 144 -> I("BCC", "relative", 2, FALSE)
      [] op = 145 -> I("STA", "indirect_indexed", 6, FALSE)
      [] op = 148 -> I("STY", "zero_page_x", 4, FALSE)
      [] op = 149 -> I("STA", "zero_page_x", 4, FALSE)
      [] op = 150 -> I("STX", "zero_page_y", 4, FALSE)
      [] op = 152 -> I("TYA", "implied", 2, FALSE)
      [] op = 153 -> I("STA", "absolute_y", 5, FALSE)
      [] op = 154 -> I("TXS", "implied", 2, FALSE)
      [] op = 157 -> I("STA", "absolute_x", 5, FALSE)
      [] op = 160 -> I("LDY", "immediate", 2, FALSE)
      [] op = 161 -> I("LDA", "indexed_indirect", 6, FALSE)
      [] op = 162 -> I("LDX", "immediate", 2, FALSE)
      [] op = 164 -> I("LDY", "zero_page", 3, FALSE)
      [] op = 165 -> I("LDA", "zero_page", 3, FALSE)
      [] op = 166 -> I("LDX", "zero_page", 3, FALSE)
      [] op = 168 -> I("TAY", "implied", 2, FALSE)
      [] op = 169 -> I("LDA", "immediate", 2, FALSE)
      [] op = 170 -> I("TAX", "implied", 2, FALSE)
      [] op = 172 -> I("LDY", "absolute", 4, FALSE)
      [] op = 173 -> I("LDA", "absolute", 4, FALSE)
      [] op = 174 -> I("LDX", "absolute", 4, FALSE)
      [] op = 176 -> I("BCS", "relative", 2, FALSE)
      [] op = 177 -> I("LDA", "indirect_indexed", 5, TRUE)
      [] op = 180 -> I("LDY", "zero_page_x", 4, FALSE)
      [] op = 181 -> I("LDA", "zero_page_x", 4, FALSE)
      [] op = 182 -> I("LDX", "zero_page_y", 4, FALSE)
      [] op = 184 -> I("CLV", "implied", 2, FALSE)
      [] op = 185 -> I("LDA", "absolute_y", 4, TRUE)
      [] op = 186 -> I("TSX", "implied", 2, FALSE)
      [] op = 188 -> I("LDY", "absolute_x", 4, TRUE)
      [] op = 189 -> I("LDA", "absolute_x", 4, TRUE)
      [] op = 190 -> I("LDX", "absolute_y", 4, TRUE)
      [] op = 192 -> I("CPY", "immediate", 2, FALSE)
      [] op = 193 -> I("CMP", "indexed_indirect", 6, FALSE)
      [] op = 196 -> I("CPY", "zero_page", 3, FALSE)
      [] op = 197 -> I("CMP", "zero_page", 3, FALSE)
      [] op = 198 -> I("DEC", "zero_page", 5, FALSE)
      [] op = 200 -> I("INY", "implied", 2, FALSE)
      [] op = 201 -> I("CMP", "immediate", 2, FALSE)
      [] op = 202 -> I("DEX", "implied", 2, FALSE)
      [] op = 204 -> I("CPY", "absolute", 4, FALSE)
      [] op = 205 -> I("CMP", "absolute", 4, FALSE)
      [] op = 206 -> I("DEC", "absolute", 6, FALSE)
      [] op = 208 -> I("BNE", "relative", 2, FALSE)
      [] op = 209 -> I("CMP", "indirect_indexed", 5, TRUE)
      [] op = 213 -> I("CMP", "zero_page_x", 4, FALSE)
      [] op = 214 -> I("DEC", "zero_page_x", 6, FALSE)
      [] op = 216 -> I("CLD", "implied", 2, FALSE)
      [] op = 217 -> I("CMP", "absolute_y", 4, TRUE)
      [] op = 221 -> I("CMP", "absolute_x", 4, TRUE)
      [] op = 222 -> I("DEC", "absolute_x", 7, FALSE)
      [] op = 224 -> I("CPX", "immediate", 2, FALSE)
      [] op = 225 -> I("SBC", "indexed_indirect", 6, FALSE)
      [] op = 228 -> I("CPX", "zero_page", 3, FALSE)
      [] op = 229 -> I("SBC", "zero_page", 3, FALSE)
      [] op = 230 -> I("INC", "zero_page", 5, FALSE)
      [] op = 232 -> I("INX", "implied", 2, FALSE)
      [] op = 233 -> I("SBC", "immediate", 2, FALSE)
      [] op = 234 -> I("NOP", "implied", 2, FALSE)
      [] op = 236 -> I("CPX", "absolute", 4, FALSE)
      [] op = 237 -> I("SBC", "absolute", 4, FALSE)
      [] op = 238 -> I("INC", "absolute", 6, FALSE)
      [] op = 240 -> I("BEQ", "relative", 2, FALSE)
      [] op = 241 -> I("SBC", "indirect_indexed", 5, TRUE)
      [] op = 245 -> I("SBC", "zero_page_x", 4, FALSE)
      [] op = 246 -> I("INC", "zero_page_x", 6, FALSE)
      [] op = 248 -> I("SED", "implied", 2, FALSE)
      [] op = 249 -> I("SBC", "absolute_y", 4, TRUE)
      [] op = 253 -> I("SBC", "absolute_x", 4, TRUE)
      [] op = 254 -> I("INC", "absolute_x", 7, FALSE)
      [] OTHER -> I("unknown", "implied", 2, FALSE)

\* the AddrResult computed by the case's addressing-mode call
Operand(n, mode) ==
    CASE mode = "immediate"        -> addr_immediate(n)
      [] mode = "zero_page"        -> addr_zero_page(n)
      [] mode = "zero_page_x"      -> addr_zero_page_x(n)
      [] mode = "zero_page_y"      -> addr_zero_page_y(n)
      [] mode = "absolute"         -> addr_absolute(n)
      [] mode = "absolute_x"       -> addr_absolute_x(n)
      [] mode = "absolute_y"       -> addr_absolute_y(n)
      [] mode = "indirect"         -> addr_indirect(n)
      [] mode = "indexed_indirect" -> addr_indexed_indirect(n)
      [] mode = "indirect_indexed" -> addr_indirect_indexed(n)
      [] OTHER                     -> AddrResult(n, 0, FALSE)

Flag(n, f) == And(n.cpu.p, f) # 0

\* accumulator <- f(A, M); ZN
LoadA(v, n) == [n EXCEPT !.cpu.a = v, !.cpu.p = cpu_set_zn(@, v)]
LoadX(n, v) == [n EXCEPT !.cpu.x = v, !.cpu.p = cpu_set_zn(@, v)]
LoadY(n, v) == [n EXCEPT !.cpu.y = v, !.cpu.p = cpu_set_zn(@, v)]

\* the shifted or rotated byte and the carry it produces; op is ASL, ROL,
\* LSR or ROR, cin the carry flag before the instruction
ShiftValue(op, v, cin) ==
    CASE op = "ASL" -> U8(v * 2)
      [] op = "ROL" -> U8(v * 2) + cin
      [] op = "LSR" -> v \div 2
      [] op = "ROR" -> (v \div 2) + 128 * cin

ShiftCarry(op, v) == IF op \in {"ASL", "ROL"} THEN v >= 128 ELSE v % 2 = 1

\* shifts and rotates on memory
Rmw(ar, op) ==
    LET r     == cpu_read(ar.n, ar.addr)
        cin   == IF Flag(r.n, FLAG_CARRY) THEN 1 ELSE 0
        p1    == SetFlag(r.n.cpu.p, FLAG_CARRY, ShiftCarry(op, r.v))
        value == ShiftValue(op, r.v, cin)
        w     == cpu_write([r.n EXCEPT !.cpu.p = p1], ar.addr, value)
    IN  [w EXCEPT !.cpu.p = cpu_set_zn(@, value)]

\* INC / DEC on memory: carry untouched
IncDec(ar, delta) ==
    LET r     == cpu_read(ar.n, ar.addr)
        value == U8(r.v + delta)
        w     == cpu_write(r.n, ar.addr, value)
    IN  [w EXCEPT !.cpu.p = cpu_set_zn(@, value)]

\* shifts and rotates on the accumulator
AccShift(n, op) ==
    LET cin   == IF Flag(n, FLAG_CARRY) THEN 1 ELSE 0
        p1    == SetFlag(n.cpu.p, FLAG_CARRY, ShiftCarry(op, n.cpu.a))
        value == ShiftValue(op, n.cpu.a, cin)
    IN  [n EXCEPT !.cpu.a = value, !.cpu.p = cpu_set_zn(p1, value)]

BitTest(ar) ==
    LET r  == cpu_read(ar.n, ar.addr)
        p0 == And(r.n.cpu.p, 255 - (FLAG_ZERO + FLAG_NEGATIVE + FLAG_OVERFLOW))
        p1 == Or(Or(p0, And(r.v, FLAG_NEGATIVE)),
                 IF And(r.v, 64) # 0 THEN FLAG_OVERFLOW ELSE 0)
        p2 == IF And(r.n.cpu.a, r.v) = 0 THEN Or(p1, FLAG_ZERO) ELSE p1
    IN  [r.n EXCEPT !.cpu.p = p2]

\* variant of Brk that pushes the address of the byte after the opcode
Brk_return_next(n) ==
    LET n1 == cpu_push(n, n.cpu.pc \div 256)
        n2 == cpu_push(n1, And(n.cpu.pc, 255))
        n3 == cpu_push(n2, Or(Or(n.cpu.p, FLAG_BREAK), FLAG_UNUSED))
        n4 == [n3 EXCEPT !.cpu.p = Or(@, FLAG_INTERRUPT), !.cpu.pc = U16(@ + 1)]
        lo == cpu_read(n4, 65534)
        hi == cpu_read(lo.n, 65535)
    IN  [hi.n EXCEPT !.cpu.pc = Or(lo.v, hi.v * 256)]

Brk(n) ==
    LET n0 == [n EXCEPT !.cpu.pc = U16(@ + 1)]
        n1 == cpu_push(n0, n0.cpu.pc \div 256)
        n2 == cpu_push(n1, And(n0.cpu.pc, 255))
        n3 == cpu_push(n2, Or(Or(n0.cpu.p, FLAG_BREAK), FLAG_UNUSED))
        n4 == [n3 EXCEPT !.cpu.p = Or(@, FLAG_INTERRUPT)]
        lo == cpu_read(n4, 65534)
        hi == cpu_read(lo.n, 65535)
    IN  [hi.n EXCEPT !.cpu.pc = Or(lo.v, hi.v * 256)]

\* variant of Jsr that pushes the address after the operand itself
Jsr_pushes_next(ar) ==
    LET ret == ar.n.cpu.pc
        n1  == cpu_push(ar.n, ret \div 256)
        n2  == cpu_push(n1, And(ret, 255))
    IN  [n2 EXCEPT !.cpu.pc = ar.addr]

Jsr(ar) ==
    LET ret == U16(65536 + ar.n.cpu.pc - 1)
        n1  == cpu_push(ar.n, ret \div 256)
        n2  == cpu_push(n1, And(ret, 255))
    IN  [n2 EXCEPT !.cpu.pc = ar.addr]

Rts(n) ==
    LET lo == cpu_pop(n)
        hi == cpu_pop(lo.n)
    IN  [hi.n EXCEPT !.cpu.pc = U16(Or(lo.v, hi.v * 256) + 1)]

Plp(n) ==
    LET s == cpu_pop(n)
    IN  [s.n EXCEPT !.cpu.p = Or(s.v, FLAG_UNUSED)]

Rti(n) ==
    LET s  == cpu_pop(n)
        lo == cpu_pop(s.n)
        hi == cpu_pop(lo.n)
    IN  [hi.n EXCEPT !.cpu.p = s.v, !.cpu.pc = Or(lo.v, hi.v * 256)]

Pla(n) ==
    LET s == cpu_pop(n)
    IN  [s.n EXCEPT !.cpu.a = s.v, !.cpu.p = cpu_set_zn(@, s.v)]

\* body of one case of the switch, without its cycle charge; n is the
\* machine after the opcode fetch, ar the case's AddrResult and m the
\* cpu_read(nes, ar.addr) of the cases that read their operand
Execute(n, mn, ar, m) ==
        CASE mn = "BRK" -> Brk(n)
          [] mn = "ORA" -> LoadA(Or(m.n.cpu.a, m.v), m.n)
          [] mn = "AND" -> LoadA(And(m.n.cpu.a, m.v), m.n)
          [] mn = "EOR" -> LoadA(Xor(m.n.cpu.a, m.v), m.n)
          [] mn = "LDA" -> LoadA(m.v, m.n)
          [] mn = "LDX" -> LoadX(m.n, m.v)
          [] mn = "LDY" -> LoadY(m.n, m.v)
          [] mn = "ADC" -> [m.n EXCEPT !.cpu = cpu_adc(@, m.v)]
          [] mn = "SBC" -> [m.n EXCEPT !.cpu = cpu_sbc(@, m.v)]
          [] mn = "CMP" -> [m.n EXCEPT !.cpu = cpu_compare(@, m.n.cpu.a, m.v)]
          [] mn = "CPX" -> [m.n EXCEPT !.cpu = cpu_compare(@, m.n.cpu.x, m.v)]
          [] mn = "CPY" -> [m.n EXCEPT !.cpu = cpu_compare(@, m.n.cpu.y, m.v)]
          [] mn = "BIT" -> BitTest(ar)
          [] mn = "ASL" -> Rmw(ar, "ASL")
          [] mn = "ROL" -> Rmw(ar, "ROL")
          [] mn = "LSR" -> Rmw(ar, "LSR")
          [] mn = "ROR" -> Rmw(ar, "ROR")
          [] mn = "ASL_A" -> AccShift(n, "ASL")
          [] mn = "ROL_A" -> AccShift(n, "ROL")
          [] mn = "LSR_A" -> AccShift(n, "LSR")
          [] mn = "ROR_A" -> AccShift(n, "ROR")
          [] mn = "INC" -> IncDec(ar, 1)
          [] mn = "DEC" -> IncDec(ar, 255)
          [] mn = "STA" -> cpu_write(ar.n, ar.addr, ar.n.cpu.a)
          [] mn = "STX" -> cpu_write(ar.n, ar.addr, ar.n.cpu.x)
          [] mn = "STY" -> cpu_write(ar.n, ar.addr, ar.n.cpu.y)
          [] mn = "INX" -> LoadX(n, U8(n.cpu.x + 1))
          [] mn = "DEX" -> LoadX(n, U8(n.cpu.x + 255))
          [] mn = "INY" -> LoadY(n, U8(n.cpu.y + 1))
          [] mn = "DEY" -> LoadY(n, U8(n.cpu.y + 255))
          [] mn = "TAX" -> LoadX(n, n.cpu.a)
          [] mn = "TAY" -> LoadY(n, n.cpu.a)
          [] mn = "TSX" -> LoadX(n, n.cpu.sp)
          [] mn = "TXA" -> LoadA(n.cpu.x, n)
          [] mn = "TYA" -> LoadA(n.cpu.y, n)
          [] mn = "TXS" -> [n EXCEPT !.cpu.sp = n.cpu.x]
          [] mn = "PHA" -> cpu_push(n, n.cpu.a)
          [] mn = "PHP" -> cpu_push(n, Or(Or(n.cpu.p, FLAG_BREAK), FLAG_UNUSED))
          [] mn = "PLA" -> Pla(n)
          [] mn = "PLP" -> Plp(n)
          [] mn = "RTI" -> Rti(n)
          [] mn = "RTS" -> Rts(n)
          [] mn = "JSR" -> Jsr(ar)
          [] mn = "JMP" -> [ar.n EXCEPT !.cpu.pc = ar.addr]
          [] mn = "BPL" -> cpu_branch(n, ~Flag(n, FLAG_NEGATIVE))
          [] mn = "BMI" -> cpu_branch(n, Flag(n, FLAG_NEGATIVE))
          [] mn = "BVC" -> cpu_branch(n, ~Flag(n, FLAG_OVERFLOW))
          [] mn = "BVS" -> cpu_branch(n, Flag(n, FLAG_OVERFLOW))
          [] mn = "BCC" -> cpu_branch(n, ~Flag(n, FLAG_CARRY))
          [] mn = "BCS" -> cpu_branch(n, Flag(n, FLAG_CARRY))
          [] mn = "BNE" -> cpu_branch(n, ~Flag(n, FLAG_ZERO))
          [] mn = "BEQ" -> cpu_branch(n, Flag(n, FLAG_ZERO))
          [] mn = "CLC" -> [n EXCEPT !.cpu.p = And(@, 255 - FLAG_CARRY)]
          [] mn = "SEC" -> [n EXCEPT !.cpu.p = Or(@, FLAG_CARRY)]
          [] mn = "CLI" -> [n EXCEPT !.cpu.p = And(@, 255 - FLAG_INTERRUPT)]
          [] mn = "SEI" -> [n EXCEPT !.cpu.p = Or(@, FLAG_INTERRUPT)]
          [] mn = "CLD" -> [n EXCEPT !.cpu.p = And(@, 255 - FLAG_DECIMAL)]
          [] mn = "SED" -> [n EXCEPT !.cpu.p = Or(@, FLAG_DECIMAL)]
          [] mn = "CLV" -> [n EXCEPT !.cpu.p = And(@, 255 - FLAG_OVERFLOW)]
          [] OTHER -> n

\* variant of Charge that never charges a page crossing
Charge_flat(e, i, ar) == [e EXCEPT !.cpu.cycles = @ + i.cycles]

\* variant of Charge that charges every page crossing
Charge_every_crossing(e, i, ar) ==
    [e EXCEPT !.cpu.cycles =
                  @ + i.cycles + (IF ar.page_crossed THEN 1 ELSE 0)]

\* cpu->cycles += the case's cycles, one more on a charged page crossing
Charge(e, i, ar) ==
    [e EXCEPT !.cpu.cycles =
                  @ + i.cycles
                    + (IF i.penalty /\ ar.page_crossed THEN 1 ELSE 0)]

\* the case of the switch selected by i, on its AddrResult ar
Dispatch(n, i, ar) ==
    Charge(Execute(n, i.mn, ar, cpu_read(ar.n, ar.addr)), i, ar)

\* one call of cpu_step on the machine n
cpu_step(n) ==
    LET f == fetch(n)
        i == OpInfo(f.v)
    IN  Dispatch(f.n, i, Operand(f.n, i.mode))

(***************************************************************************)
(* Nessy: iNES loader                                                      *)
(***************************************************************************)
INES_HEADER_SIZE  == 16
INES_TRAINER_SIZE == 512
PRG_CAPACITY      == 2 * PRG_ROM_BANK_SIZE
CHR_CAPACITY      == CHR_ROM_BANK_SIZE

Min(a, b) == IF a < b THEN a ELSE b

\* memcpy(dst, src + offset, len) into a zeroed array of cap bytes: the cells
\* of dst that the copy defines inside the array
CopyBytes(data, offset, len, cap) ==
    LET lim == Min(len, cap)
        src == {b \in DOMAIN data : b >= offset /\ b - offset < lim}
    IN  [i \in {b - offset : b \in src} |-> data[i + offset]]

EmptyCart ==
    [prg_rom |-> EmptyMem, chr_rom |-> EmptyMem,
     prg_rom_size |-> 0, chr_rom_size |-> 0]

Rejected == [ok |-> FALSE, cart |-> EmptyCart, prg_copied |-> 0, chr_copied |-> 0]

\* img = [rom_size, rom_data]; cart is the Cartridge as the assignments of
\* parse_ines leave it, prg_copied / chr_copied the lengths given to memcpy
parse_ines(img) ==
    LET header    == img.rom_data
        prg_banks == Rd(header, 4)
        chr_banks == Rd(header, 5)
        flags6    == Rd(header, 6)
        mapper    == flags6 \div 16
        offset    == INES_HEADER_SIZE
                     + (IF And(flags6, 4) # 0 THEN INES_TRAINER_SIZE ELSE 0)
        prg_size  == prg_banks * PRG_ROM_BANK_SIZE
        chr_size  == chr_banks * CHR_ROM_BANK_SIZE
    IN  IF img.rom_size < INES_HEADER_SIZE THEN Rejected
        ELSE IF <<Rd(header, 0), Rd(header, 1), Rd(header, 2), Rd(header, 3)>>
                # <<78, 69, 83, 26>> THEN Rejected
        ELSE IF mapper # 0 THEN Rejected
        ELSE IF img.rom_size < offset + prg_size + chr_size THEN Rejected
        ELSE [ok |-> TRUE,
              cart |-> [prg_rom |-> CopyBytes(img.rom_data, offset, prg_size,
                                              PRG_CAPACITY),
                        chr_rom |-> IF chr_size > 0
                                    THEN CopyBytes(img.rom_data,
                                                   offset + prg_size, chr_size,
                                                   CHR_CAPACITY)
                                    ELSE EmptyMem,
                        prg_rom_size |-> IF prg_size # 0 THEN prg_size
                                         ELSE PRG_ROM_BANK_SIZE,
                        chr_rom_size |-> chr_size],
              prg_copied |-> prg_size,
              chr_copied |-> chr_size]

(***************************************************************************)
(* Nessy: machine aggregate and power-on (main, src/nessy.c:1526-1536)     *)
(***************************************************************************)
NES == [cpu |-> cpu, ppu |-> ppu, vram |-> vram, palette |-> palette,
        oam |-> oam, cart |-> cart, ram |-> ram]

\* memset(&nes, 0), cart as parsed, ppu_reset, cpu_reset(word at 0xFFFC)
PowerOn(c) ==
    LET n0 == [cpu |-> cpu_reset(0), ppu |-> ppu_reset, vram |-> EmptyMem,
               palette |-> EmptyMem, oam |-> EmptyMem, cart |-> c,
               ram |-> EmptyMem]
        lo == cpu_read(n0, 65532)
        hi == cpu_read(lo.n, 65533)
    IN  [hi.n EXCEPT !.cpu = cpu_reset(Or(lo.v, hi.v * 256))]

NoValue == -1

SetNES(n) ==
    /\ cpu' = n.cpu /\ ppu' = n.ppu /\ vram' = n.vram
    /\ palette' = n.palette /\ oam' = n.oam /\ cart' = n.cart /\ ram' = n.ram

NesIs(n) ==
    /\ cpu = n.cpu /\ ppu = n.ppu /\ vram = n.vram
    /\ palette = n.palette /\ oam = n.oam /\ cart = n.cart /\ ram = n.ram

NoLatchHist == [cleared_by |-> "reset", writes |-> <<>>]

HistInit ==
    /\ cpu_steps = 0 /\ ppu_steps = 0 /\ read_since_vblank = FALSE
    /\ latch_hist = NoLatchHist /\ bus_accesses = 0

\* a finite map without its zero cells
Cells(f) == [a \in {x \in DOMAIN f : f[x] # 0} |-> f[a]]

\* a mapper-0 image with one PRG bank holding prog at 0x8000 and the reset
\* vector 0x8000; every other PRG byte is 0
ProgramImage(prog) ==
    LET hdr  == <<78, 69, 83, 26, 1, 0, 0, 0>>
        body == [a \in (0..(Len(hdr) - 1))
                       \cup (INES_HEADER_SIZE..(INES_HEADER_SIZE + Len(prog) - 1))
                       \cup {INES_HEADER_SIZE + 16381} |->
                    IF a < Len(hdr) THEN hdr[a + 1]
                    ELSE IF a = INES_HEADER_SIZE + 16381 THEN 128
                    ELSE prog[a - INES_HEADER_SIZE + 1]]
    IN  [rom_size |-> INES_HEADER_SIZE + PRG_ROM_BANK_SIZE,
         rom_data |-> Cells(body)]

RECURSIVE Flatten(_)
Flatten(ss) == IF ss = <<>> THEN <<>> ELSE Head(ss) \o Flatten(Tail(ss))

RECURSIVE SeqsUpTo(_, _)
SeqsUpTo(S, k) ==
    IF k = 0 THEN {<<>>}
    ELSE LET shorter == SeqsUpTo(S, k - 1)
         IN  shorter \cup {Append(s, e) : s \in {t \in shorter : Len(t) = k - 1},
                                          e \in S}

(***************************************************************************)
(* DuoVM and loader variables at rest (the other program is not running)   *)
(***************************************************************************)
InesIdle ==
    /\ image = [rom_size |-> 0, rom_data |-> EmptyMem]
    /\ load_state = "none" /\ prg_copied = 0 /\ chr_copied = 0

DuoIdle ==
    /\ memory = EmptyMem /\ loaded = EmptyMem
    /\ PC = 0 /\ A = 0 /\ T = 0 /\ D0 = 0 /\ D1 = 0 /\ C = FALSE
    /\ running = TRUE /\ waiting_key = FALSE /\ cur_x = 0 /\ cur_y = 0
    /\ vm_exit = "off" /\ duo_steps = 0
    /\ last_store = [addr |-> NoValue, value |-> NoValue]
    /\ duo_pc = "off" /\ burst_i = 0 /\ burst_inputs = 0

\* main has not entered its frame loop
LoopIdle ==
    /\ drv_pc = "off" /\ frames = 0 /\ rendered = 0
    /\ last_scanline = 0 /\ iterations = 0 /\ nmi_raised = 0
    /\ nmi_serviced = 0 /\ wraps = 0
    /\ cpu_prev = cpu

\* no second run
NoTwin == [load_state |-> "none"]

DrvIdle == LoopIdle /\ twin = NoTwin

NesIdle ==
    /\ NesIs(PowerOn([EmptyCart EXCEPT !.prg_rom_size = PRG_ROM_BANK_SIZE]))
    /\ bus_value = NoValue
    /\ HistInit

(***************************************************************************)
(* Nessy CPU running a program (cpu_step called repeatedly)                *)
(***************************************************************************)
MaxCpuSteps == 4
ProgLen     == 3

\* instructions the programs are built from
CpuInstrs ==
    { <<64>>,            \* RTI
      <<40>>,            \* PLP
      <<8>>,             \* PHP
      <<72>>,            \* PHA
      <<169, 207>>,      \* LDA #$CF
      <<0>>,             \* BRK
      <<2>>,             \* not in the table
      <<56>>,            \* SEC
      <<105, 80>>,       \* ADC #$50
      <<36, 0>>,         \* BIT $00
      <<32, 0, 128>>,    \* JSR $8000
      <<96>> }           \* RTS

CpuPrograms == {Flatten(s) : s \in SeqsUpTo(CpuInstrs, ProgLen)}

InitCpu ==
    /\ \E prog \in CpuPrograms :
          LET img == ProgramImage(prog)
          IN  /\ image = img
              /\ NesIs(PowerOn(parse_ines(img).cart))
    /\ load_state = "accepted" /\ prg_copied = PRG_ROM_BANK_SIZE
    /\ chr_copied = 0
    /\ bus_value = NoValue
    /\ HistInit
    /\ DuoIdle
    /\ DrvIdle

CpuStep ==
    /\ cpu_steps < MaxCpuSteps
    /\ SetNES(cpu_step(NES))
    /\ cpu_steps' = cpu_steps + 1
    /\ bus_value' = NoValue
    /\ UNCHANGED <<ppu_steps, read_since_vblank, latch_hist, bus_accesses>>
    /\ UNCHANGED <<inesVars, duoVars, drvVars>>

NextCpu == CpuStep

SpecCpu == InitCpu /\ [][NextCpu]_vars

\* C1: after every instruction executed by cpu_step, bit 5 (UNUSED) of the
\* status register P is set.
C1_UnusedAlwaysSet == And(cpu.p, FLAG_UNUSED) = FLAG_UNUSED

(***************************************************************************)
(* Nessy: operations on the CPU bus and the PPU clock as steps             *)
(***************************************************************************)
InPpuRange(addr) == addr >= 8192 /\ addr < 16384

\* registers 5/6 written since the write latch was last cleared
LatchAfterRead(addr) ==
    IF InPpuRange(addr) /\ addr % 8 = 2
    THEN [cleared_by |-> "read", writes |-> <<>>]
    ELSE latch_hist

LatchAfterWrite(addr) ==
    IF InPpuRange(addr) /\ addr % 8 \in {5, 6}
    THEN [latch_hist EXCEPT !.writes = Append(@, addr % 8)]
    ELSE latch_hist

\* cpu_read(nes, addr) issued on the bus
BusRead(addr) ==
    LET r == cpu_read(NES, addr)
    IN  /\ SetNES(r.n)
        /\ bus_value' = r.v
        /\ latch_hist' = LatchAfterRead(addr)
        /\ read_since_vblank' =
               IF InPpuRange(addr) /\ addr % 8 = 2 THEN TRUE
               ELSE read_since_vblank
        /\ UNCHANGED <<cpu_steps, ppu_steps>>
        /\ UNCHANGED <<inesVars, duoVars, drvVars>>

\* cpu_write(nes, addr, value) issued on the bus
BusWrite(addr, value) ==
    /\ SetNES(cpu_write(NES, addr, value))
    /\ bus_value' = NoValue
    /\ latch_hist' = LatchAfterWrite(addr)
    /\ UNCHANGED <<cpu_steps, ppu_steps, read_since_vblank>>
    /\ UNCHANGED <<inesVars, duoVars, drvVars>>

EntersVBlank(p) == p.scanline = PPU_VBLANK_LINE /\ p.cycle = 0

\* ppu_step(&nes.ppu)
PpuTick ==
    /\ ppu' = ppu_step(ppu)
    /\ ppu_steps' = ppu_steps + 1
    /\ read_since_vblank' =
           IF EntersVBlank(ppu') THEN FALSE ELSE read_since_vblank
    /\ bus_value' = NoValue
    /\ UNCHANGED <<cpu, vram, palette, oam, cart, ram>>
    /\ UNCHANGED <<cpu_steps, latch_hist, bus_accesses>>
    /\ UNCHANGED <<inesVars, duoVars, drvVars>>

InitPpu ==
    /\ NesIs(PowerOn(parse_ines(ProgramImage(<<>>)).cart))
    /\ image = ProgramImage(<<>>)
    /\ load_state = "accepted" /\ prg_copied = PRG_ROM_BANK_SIZE
    /\ chr_copied = 0
    /\ bus_value = NoValue
    /\ HistInit
    /\ DuoIdle
    /\ DrvIdle

(***************************************************************************)
(* PPU register file driven by CPU bus accesses                            *)
(***************************************************************************)
MaxBusAccesses == 3

PpuBusAddrs == (8192..8199) \cup {16378}
BusValues   == {63, 165}

RegRead ==
    /\ bus_accesses < MaxBusAccesses
    /\ \E addr \in PpuBusAddrs : BusRead(addr)
    /\ bus_accesses' = bus_accesses + 1

RegWrite ==
    /\ bus_accesses < MaxBusAccesses
    /\ \E addr \in PpuBusAddrs, value \in BusValues : BusWrite(addr, value)
    /\ bus_accesses' = bus_accesses + 1

NextPpuReg == RegRead \/ RegWrite

SpecPpuReg == InitPpu /\ [][NextPpuReg]_vars

\* what the PPU does with the first / second write of registers 5 and 6
FirstWrite5(p, q, v) ==
    /\ q.fine_x = And(v, 7)
    /\ q.temp_addr = Or(And(p.temp_addr, 65504), v \div 8)
    /\ q.vram_addr = p.vram_addr

SecondWrite5(p, q, v) ==
    /\ q.fine_x = p.fine_x
    /\ q.temp_addr = Or(And(Or(And(p.temp_addr, 36863), And(v, 7) * 4096), 64543),
                        And(v, 248) * 4)
    /\ q.vram_addr = p.vram_addr

FirstWrite6(p, q, v) ==
    /\ q.temp_addr = Or(And(p.temp_addr, 255), And(v, 63) * 256)
    /\ q.vram_addr = p.vram_addr

SecondWrite6(p, q, v) ==
    /\ q.temp_addr = Or(And(p.temp_addr, 65280), v)
    /\ q.vram_addr = q.temp_addr

WriteOf(reg, v) ==
    \E addr \in PpuBusAddrs : addr % 8 = reg /\ BusWrite(addr, v)

\* C2: after a CPU read of PPU register 2 (through any mirror), whatever was
\* written before, the next write to register 5 is handled as a first write
\* and the next write to register 6 is handled as a first write.
C2_StatusReadClearsBothLatches ==
    [][\A v \in BusValues :
          /\ (latch_hist = [cleared_by |-> "read", writes |-> <<>>]
              /\ WriteOf(5, v)) => FirstWrite5(ppu, ppu', v)
          /\ (latch_hist = [cleared_by |-> "read", writes |-> <<>>]
              /\ WriteOf(6, v)) => FirstWrite6(ppu, ppu', v)]_vars

\* C3: registers 5 and 6 share one first/second-write toggle: from a cleared
\* latch, after exactly one write to register 5 the next write to register 6
\* is a second write, and after exactly one write to register 6 the next
\* write to register 5 is a second write.
C3_SharedWriteToggle ==
    [][\A v \in BusValues :
          /\ (latch_hist.writes = <<5>> /\ WriteOf(6, v))
                 => SecondWrite6(ppu, ppu', v)
          /\ (latch_hist.writes = <<6>> /\ WriteOf(5, v))
                 => SecondWrite5(ppu, ppu', v)]_vars

(***************************************************************************)
(* PPU frame clock with the CPU polling $2002 and writing $2000            *)
(***************************************************************************)
MaxPpuSteps == 172000

CtrlValues == {0, 128}

ClockTick == ppu_steps < MaxPpuSteps /\ PpuTick

StatusRead == BusRead(8194) /\ UNCHANGED bus_accesses

CtrlWrite == \E v \in CtrlValues : BusWrite(8192, v) /\ UNCHANGED bus_accesses

NextPpuClock == ClockTick \/ StatusRead \/ CtrlWrite

SpecPpuClock == InitPpu /\ [][NextPpuClock]_vars

\* which operation a step of the clock run is: a ppu_step advances the
\* count of PPU cycles, a cpu_read leaves its result, a cpu_write neither
IsTick     == ppu_steps' = ppu_steps + 1
IsBusRead  == ppu_steps' = ppu_steps /\ bus_value' # NoValue
IsBusWrite == ppu_steps' = ppu_steps /\ bus_value' = NoValue /\ ~(UNCHANGED vars)

VBlankBit(p) == (p.status \div 128) % 2

\* C8: status bit 7 is set by exactly one ppu_step in every 341*262
\* consecutive ones, the step that enters scanline 241 at cycle 0; no other
\* ppu_step sets it, and the step that wraps scanline 261 to 0 clears it.
C8_VBlankOncePerFrame ==
    [][IsTick =>
          /\ EntersVBlank(ppu') <=>
                 (ppu_steps' % PPU_FRAME = PPU_CYCLES_PER_LINE * PPU_VBLANK_LINE)
          /\ EntersVBlank(ppu') => VBlankBit(ppu') = 1
          /\ ~EntersVBlank(ppu') => VBlankBit(ppu') <= VBlankBit(ppu)
          /\ (ppu.scanline = PPU_LINES - 1 /\ ppu'.scanline = 0)
                 => VBlankBit(ppu') = 0]_vars

C8_Witness ==
    /\ ppu_steps = PPU_FRAME + PPU_CYCLES_PER_LINE * PPU_VBLANK_LINE
    /\ EntersVBlank(ppu)
    /\ VBlankBit(ppu) = 1
    /\ read_since_vblank = FALSE
    /\ latch_hist.cleared_by = "read"

\* C9: nmi_triggered goes from false to true only in the ppu_step that
\* enters scanline 241 and only with ctrl bit 7 set at that step; with ctrl
\* bit 7 clear at that step it stays false, and a later write of ctrl bit 7
\* during VBlank does not raise it.
C9_NmiOnlyAtVBlankEntry ==
    [][/\ (~ppu.nmi_triggered /\ ppu'.nmi_triggered)
              => (IsTick /\ EntersVBlank(ppu') /\ HasBit(ppu.ctrl, 128))
       /\ (IsTick /\ EntersVBlank(ppu') /\ ~HasBit(ppu.ctrl, 128))
              => ~ppu'.nmi_triggered
       /\ (IsBusWrite /\ VBlankBit(ppu) = 1)
              => (ppu'.nmi_triggered = ppu.nmi_triggered)
      ]_vars

C9_Witness ==
    /\ ppu.nmi_triggered
    /\ EntersVBlank(ppu)
    /\ HasBit(ppu.ctrl, 128)

\* C10: 341*241 ppu_steps after reset a read of $2002 returns bit 7 = 1; a
\* read of $2002 returns the status and then clears bit 7, so a further read
\* with no scanline-241 entry in between returns bit 7 = 0.
C10_StatusReadReturnsThenClears ==
    [][IsBusRead =>
          /\ bus_value' = ppu.status
          /\ ppu'.status = ClrBit(ppu.status, 128)
          /\ (ppu_steps = PPU_CYCLES_PER_LINE * PPU_VBLANK_LINE
              /\ ~read_since_vblank) => HasBit(bus_value', 128)
          /\ read_since_vblank => ~HasBit(bus_value', 128)]_vars

C10_Witness ==
    /\ ppu_steps = PPU_CYCLES_PER_LINE * PPU_VBLANK_LINE
    /\ bus_value = 128 + 32
    /\ VBlankBit(ppu) = 0
    /\ read_since_vblank

\* C26: after reset and any number of ppu_step calls scanline is in [0, 262)
\* and cycle in [0, 341); each ppu_step advances cycle by 1 modulo 341, and
\* advances scanline by 1 modulo 262 exactly when cycle wraps to 0.
C26_ScanCounters ==
    /\ [](ppu.scanline \in 0..(PPU_LINES - 1)
          /\ ppu.cycle \in 0..(PPU_CYCLES_PER_LINE - 1))
    /\ [][IsTick =>
             /\ ppu'.cycle = (ppu.cycle + 1) % PPU_CYCLES_PER_LINE
             /\ ppu'.scanline = IF ppu'.cycle = 0
                                THEN (ppu.scanline + 1) % PPU_LINES
                                ELSE ppu.scanline]_vars

\* the ppu_step that ends the first frame has wrapped both counters to 0
C26_Witness ==
    /\ ppu_steps = PPU_FRAME /\ ppu.scanline = 0 /\ ppu.cycle = 0
    /\ bus_value = NoValue /\ HasBit(ppu.ctrl, 128)

(***************************************************************************)
(* Nessy: loading an iNES image (main calls parse_ines and exits 1 on      *)
(* failure)                                                                *)
(***************************************************************************)
MaxPrgBanks == 3
MaxChrBanks == 2

Flags6Values == {0, 4, 16, 240}
Flags7Values == {0, 16, 64}

\* header with the given magic byte 0 and bytes 4..7; the body is zero
HeaderImage(b0, prg_banks, chr_banks, flags6, flags7, size) ==
    [rom_size |-> size,
     rom_data |-> Cells([a \in 0..7 |->
                           <<b0, 69, 83, 26, prg_banks, chr_banks,
                             flags6, flags7>>[a + 1]])]

BodySize(prg_banks, chr_banks, flags6) ==
    INES_HEADER_SIZE + (IF HasBit(flags6, 4) THEN INES_TRAINER_SIZE ELSE 0)
    + prg_banks * PRG_ROM_BANK_SIZE + chr_banks * CHR_ROM_BANK_SIZE

InitInes ==
    /\ \E b0 \in {78, 0}, prg_banks \in 0..MaxPrgBanks,
          chr_banks \in 0..MaxChrBanks, flags6 \in Flags6Values,
          flags7 \in Flags7Values, short \in {0, 1, 16} :
          image = HeaderImage(b0, prg_banks, chr_banks, flags6, flags7,
                              IF short = 16 THEN 15
                              ELSE BodySize(prg_banks, chr_banks, flags6) - short)
    /\ load_state = "loaded" /\ prg_copied = 0 /\ chr_copied = 0
    /\ NesIdle
    /\ DuoIdle
    /\ DrvIdle

\* A memcpy longer than its destination array is undefined: the copy may stay
\* inside the NES aggregate and leave the fields as assigned, may overwrite
\* the size fields that follow the arrays with image bytes, or the process
\* may be aborted by a checked memcpy.
OverflowOutcomes(r) ==
    IF r.prg_copied <= PRG_CAPACITY /\ r.chr_copied <= CHR_CAPACITY
    THEN {[state |-> "accepted", cart |-> r.cart]}
    ELSE {[state |-> "accepted", cart |-> r.cart],
          [state |-> "accepted",
           cart |-> [r.cart EXCEPT !.prg_rom_size = 0]],
          [state |-> "aborted", cart |-> r.cart]}

ParseInes ==
    /\ load_state = "loaded"
    /\ LET r == parse_ines(image)
       IN  IF r.ok
           THEN /\ \E o \in OverflowOutcomes(r) :
                      /\ load_state' = o.state
                      /\ cart' = o.cart
                /\ prg_copied' = r.prg_copied
                /\ chr_copied' = r.chr_copied
           ELSE /\ load_state' = "rejected"
                /\ UNCHANGED <<cart, prg_copied, chr_copied>>
    /\ UNCHANGED <<cpu, ppu, vram, palette, oam, ram, bus_value, image>>
    /\ UNCHANGED <<histVars, duoVars, drvVars>>

NextInes == ParseInes

SpecInes == InitInes /\ [][NextInes]_vars

\* C6: whenever parse_ines accepts an image, prg_size is 16384 or 32768,
\* chr_size is 0 or 8192, and the bytes copied fit the 32 KiB PRG store and
\* the 8 KiB CHR store.
C6_AcceptedCartFitsStores ==
    load_state = "accepted" =>
        /\ cart.prg_rom_size \in {PRG_ROM_BANK_SIZE, 2 * PRG_ROM_BANK_SIZE}
        /\ cart.chr_rom_size \in {0, CHR_ROM_BANK_SIZE}
        /\ prg_copied <= PRG_CAPACITY
        /\ chr_copied <= CHR_CAPACITY

\* C7: parse_ines accepts only images whose mapper number, formed from the
\* upper nibble of header byte 6 and the upper nibble of header byte 7, is 0.
C7_OnlyMapperZeroAccepted ==
    load_state = "accepted" =>
        (Rd(image.rom_data, 6) \div 16) + And(Rd(image.rom_data, 7), 240) = 0

(***************************************************************************)
(* DuoVM                                                                   *)
(***************************************************************************)
MEM_SIZE   == 65536
SRAM_START == 224 * 256
SCREEN_W   == 36
SCREEN_H   == 24

\* The machine s is the record of the globals of duovm.c
\*   [memory, PC, A, T, D0, D1, C, running, waiting_key, cur_x, cur_y]
\* with vm_exit = "running", or the exit taken by a fatal error, and
\* last_store = the arguments of the latest mem_write call.
Live(s) == s.vm_exit = "running"

\* check_addr: its parameter is a uint16_t
check_addr(s, addr) ==
    IF addr >= MEM_SIZE THEN [s EXCEPT !.vm_exit = "oob"] ELSE s

mem_read(s, addr) == Rd(s.memory, addr)

\* variant of mem_write without the ROM guard
mem_write_unguarded(s, addr, v) ==
    LET s1 == [check_addr(s, addr) EXCEPT
                  !.last_store = [addr |-> addr, value |-> v]]
    IN  IF ~Live(s1) THEN s1 ELSE [s1 EXCEPT !.memory = Wr(@, addr, v)]

mem_write(s, addr, v) ==
    LET s1 == [check_addr(s, addr) EXCEPT
                  !.last_store = [addr |-> addr, value |-> v]]
    IN  IF ~Live(s1) THEN s1
        ELSE IF addr < SRAM_START THEN [s1 EXCEPT !.vm_exit = "rom_write"]
        ELSE [s1 EXCEPT !.memory = Wr(@, addr, v)]

\* variant of next_addr that keeps the int value of addr + 1
next_addr_unconverted(addr) == addr + 1

\* addr + 1 as the uint16_t parameter of the second mem_read of mem_read16
next_addr(addr) == U16(addr + 1)

mem_read16(s, addr) ==
    mem_read(s, addr) + 256 * mem_read(s, next_addr(addr))

\* variant of put_char_vm with one more row before the wrap
put_char_vm_tall(s) ==
    LET x == U8(s.cur_x + 1)
    IN  IF x >= SCREEN_W
        THEN [s EXCEPT !.cur_x = 0,
                       !.cur_y = IF U8(@ + 1) > SCREEN_H THEN 0 ELSE U8(@ + 1)]
        ELSE [s EXCEPT !.cur_x = x]

put_char_vm(s) ==
    LET x == U8(s.cur_x + 1)
    IN  IF x >= SCREEN_W
        THEN [s EXCEPT !.cur_x = 0,
                       !.cur_y = IF U8(@ + 1) >= SCREEN_H THEN 0 ELSE U8(@ + 1)]
        ELSE [s EXCEPT !.cur_x = x]

\* variant of write_alu_dest with the two destinations exchanged
write_alu_dest_swapped(s, dest, val) ==
    IF dest = 1 THEN mem_write(s, s.A, val) ELSE [s EXCEPT !.D0 = val]

write_alu_dest(s, dest, val) ==
    IF dest = 0 THEN mem_write(s, s.A, val) ELSE [s EXCEPT !.D0 = val]

Carry(s) == IF s.C THEN 1 ELSE 0

\* variant of ReadKey that returns with waiting_key still set
ReadKey_still_waiting(s, b) ==
    mem_write([s EXCEPT !.waiting_key = TRUE], s.A, b)

\* opcode 0xA0: waiting_key is set around read_button, which returns b, and
\* cleared after the store unless the store ends the process
ReadKey(s, b) ==
    LET w == mem_write([s EXCEPT !.waiting_key = TRUE], s.A, b)
    IN  IF Live(w) THEN [w EXCEPT !.waiting_key = FALSE] ELSE w

\* the addresses one call of step() passes to mem_read: the opcode at PC,
\* the operand bytes behind it, and the cell at A
step_reads(s) ==
    LET opcode == mem_read(s, s.PC)
        pc     == U16(s.PC + 1)
    IN  {s.PC}
        \cup (IF opcode \in {0, 32, 33, 34} THEN {pc, next_addr(pc)} ELSE {})
        \cup (IF opcode \in {1, 2} THEN {pc} ELSE {})
        \cup (IF opcode \in {3, 4, 5, 6, 161, 162, 163} THEN {s.A} ELSE {})

\* one call of step(); b is the button returned by read_button if the
\* instruction reads one; a mem_read whose check_addr fires ends the process
step(s, b) ==
    LET opcode == mem_read(s, s.PC)
        s0     == [s EXCEPT !.PC = U16(@ + 1)]
        pc     == s0.PC
        alu    == opcode - (opcode % 2)
        dst    == opcode % 2
    IN  IF \E a \in step_reads(s) : ~Live(check_addr(s, a))
        THEN [s0 EXCEPT !.vm_exit = "oob"]
        ELSE
        CASE opcode = 0 -> [s0 EXCEPT !.A = mem_read16(s0, pc), !.PC = U16(pc + 2)]
          [] opcode = 1 -> [s0 EXCEPT !.D0 = mem_read(s0, pc), !.PC = U16(pc + 1)]
          [] opcode = 2 -> [s0 EXCEPT !.D1 = mem_read(s0, pc), !.PC = U16(pc + 1)]
          [] opcode = 3 -> [s0 EXCEPT !.D0 = mem_read(s0, s0.A)]
          [] opcode = 4 -> [s0 EXCEPT !.D1 = mem_read(s0, s0.A)]
          [] opcode = 5 -> [s0 EXCEPT !.T = WithField(@, 1, 256, mem_read(s0, s0.A))]
          [] opcode = 6 -> [s0 EXCEPT !.T = WithField(@, 256, 256, mem_read(s0, s0.A))]
          [] opcode = 7 -> [s0 EXCEPT !.A = s0.T]
          [] opcode = 8 -> [s0 EXCEPT !.PC = s0.T]
          [] opcode = 32 -> [s0 EXCEPT !.PC = mem_read16(s0, pc)]
          [] opcode = 33 -> [s0 EXCEPT !.PC = IF s0.C THEN mem_read16(s0, pc)
                                              ELSE U16(pc + 2)]
          [] opcode = 34 -> [s0 EXCEPT !.PC = IF ~s0.C THEN mem_read16(s0, pc)
                                              ELSE U16(pc + 2)]
          [] opcode = 64 -> [s0 EXCEPT !.C = FALSE]
          [] opcode = 65 -> [s0 EXCEPT !.C = TRUE]
          [] alu = 96 -> write_alu_dest(s0, dst, s0.D0)
          [] alu = 98 ->
               LET r == s0.D0 + s0.D1 + Carry(s0)
               IN  write_alu_dest([s0 EXCEPT !.C = r > 255], dst, U8(r))
          [] alu = 100 ->
               LET r == s0.D0 - s0.D1 - Carry(s0)
               IN  write_alu_dest([s0 EXCEPT !.C = r < 0], dst, U8(r + 256))
          [] alu = 102 -> write_alu_dest(s0, dst, And(s0.D0, s0.D1))
          [] alu = 104 -> write_alu_dest(s0, dst, Or(s0.D0, s0.D1))
          [] alu = 106 -> write_alu_dest(s0, dst, Xor(s0.D0, s0.D1))
          [] alu = 108 -> write_alu_dest(s0, dst, 255 - s0.D0)
          [] alu = 110 ->
               LET r == s0.D0 * 2 + Carry(s0)
               IN  write_alu_dest([s0 EXCEPT !.C = r > 255], dst, U8(r))
          [] alu = 112 ->
               LET r == (s0.D0 \div 2) + 128 * Carry(s0)
               IN  write_alu_dest([s0 EXCEPT !.C = s0.D0 % 2 = 1], dst, r)
          [] opcode = 160 -> ReadKey(s0, b)
          [] opcode = 161 -> put_char_vm(s0)
          [] opcode = 162 -> [s0 EXCEPT !.cur_x = mem_read(s0, s0.A)]
          [] opcode = 163 -> [s0 EXCEPT !.cur_y = mem_read(s0, s0.A)]
          [] opcode = 164 -> s0    \* clear_screen_vm: display only
          [] OTHER -> s0

Buttons == 0..3

VM == [memory |-> memory, PC |-> PC, A |-> A, T |-> T, D0 |-> D0, D1 |-> D1,
       C |-> C, running |-> running, waiting_key |-> waiting_key,
       cur_x |-> cur_x, cur_y |-> cur_y, vm_exit |-> vm_exit,
       last_store |-> last_store]

SetVM(s) ==
    /\ memory' = s.memory /\ PC' = s.PC /\ A' = s.A /\ T' = s.T
    /\ D0' = s.D0 /\ D1' = s.D1 /\ C' = s.C /\ running' = s.running
    /\ waiting_key' = s.waiting_key /\ cur_x' = s.cur_x /\ cur_y' = s.cur_y
    /\ vm_exit' = s.vm_exit /\ last_store' = s.last_store

MaxDuoSteps == 4
DuoProgLen  == 3

DuoInstrs ==
    { <<0, 0, 224>>,     \* A <- 0xE000
      <<0, 5, 0>>,       \* A <- 0x0005
      <<1, 42>>,         \* D0 <- 0x2A
      <<2, 250>>,        \* D1 <- 0xFA
      <<65>>,            \* C <- 1
      <<96>>,            \* MOV -> mem[A]
      <<98>>,            \* ADC -> mem[A]
      <<110>>,           \* ROL -> mem[A]
      <<111>>,           \* ROL -> D0
      <<35>>,            \* undefined opcode
      <<160>>,           \* read button -> mem[A]
      <<161>>,           \* emit mem[A]
      <<162>>,           \* cur_x <- mem[A]
      <<163>>,           \* cur_y <- mem[A]
      <<164>> }          \* clear screen

DuoPrograms == {Flatten(s) : s \in SeqsUpTo(DuoInstrs, DuoProgLen)}

\* load_hex of one record "0000: ..." into the zeroed memory
ProgramMemory(prog) ==
    Cells([a \in 0..(Len(prog) - 1) |-> prog[a + 1]])

InitDuo ==
    /\ \E prog \in DuoPrograms :
          /\ memory = ProgramMemory(prog)
          /\ loaded = ProgramMemory(prog)
    /\ PC = 0 /\ A = 0 /\ T = 0 /\ D0 = 0 /\ D1 = 0 /\ C = FALSE
    /\ running = TRUE /\ waiting_key = FALSE /\ cur_x = 0 /\ cur_y = 0
    /\ vm_exit = "running" /\ duo_steps = 0
    /\ last_store = [addr |-> NoValue, value |-> NoValue]
    /\ duo_pc = "off" /\ burst_i = 0 /\ burst_inputs = 0
    /\ NesIdle
    /\ InesIdle
    /\ DrvIdle

\* one iteration of the burst loop of main
DuoStep ==
    /\ Live(VM) /\ running /\ ~waiting_key
    /\ duo_steps < MaxDuoSteps
    /\ \E b \in Buttons : SetVM(step(VM, b))
    /\ duo_steps' = duo_steps + 1
    /\ UNCHANGED <<loaded, duo_pc, burst_i, burst_inputs>>
    /\ UNCHANGED <<nesVars, histVars, inesVars, drvVars>>

NextDuo == DuoStep

SpecDuo == InitDuo /\ [][NextDuo]_vars

StoreOpcodes == {96, 98, 100, 102, 104, 106, 108, 110, 112, 160}

RomAsLoaded ==
    \A a \in DOMAIN memory \cup DOMAIN loaded :
        a < SRAM_START => Rd(memory, a) = Rd(loaded, a)

\* C4: an instruction that stores to memory with A < 0xE000 halts the VM
\* with a fatal error and stores nothing, so no byte below 0xE000 ever
\* differs from its loaded value; with A >= 0xE000 the store succeeds and
\* mem[A] then reads back the stored byte.
C4_RomWriteRejectedSramRoundTrips ==
    [][/\ RomAsLoaded'
       /\ (DuoStep /\ Rd(memory, PC) \in StoreOpcodes) =>
              IF A < SRAM_START
              THEN vm_exit' = "rom_write" /\ memory' = memory
              ELSE /\ vm_exit' = "running"
                   /\ last_store'.addr = A
                   /\ Rd(memory', A) = last_store'.value
                   /\ Rd(memory, PC) = 96 => Rd(memory', A) = D0
                   /\ Rd(memory, PC) = 160 => Rd(memory', A) \in Buttons
      ]_vars

C4_Witness ==
    /\ vm_exit = "running"
    /\ last_store = [addr |-> SRAM_START, value |-> 42]
    /\ Rd(memory, SRAM_START) = 42
    /\ duo_steps = 3

\* C5: after any sequence of instructions the cursor satisfies
\* cur_x in [0, 36) and cur_y in [0, 24).
C5_CursorInsideGrid == cur_x < SCREEN_W /\ cur_y < SCREEN_H

(***************************************************************************)
(* Nessy: the frame loop of main (src/nessy.c:1538-1564); one action is    *)
(* one pass through the loop body                                          *)
(***************************************************************************)
\* bytes laid out from address base on
At(base, bytes) == [a \in base..(base + Len(bytes) - 1) |-> bytes[a - base + 1]]

\* a mapper-0 image with one PRG bank; code maps offsets in the bank to bytes
PrgImage(code) ==
    [rom_size |-> INES_HEADER_SIZE + PRG_ROM_BANK_SIZE,
     rom_data |-> Cells(At(0, <<78, 69, 83, 26, 1, 0, 0, 0>>)
                        @@ [a \in {x + INES_HEADER_SIZE : x \in DOMAIN code} |->
                               code[a - INES_HEADER_SIZE]])]

\* NMI vector $8010 and reset vector $8000 at $FFFA-$FFFD
DrvVectors == At(16378, <<16, 128, 0, 128>>)

DrvPrograms ==
    { \* LDA #$80; STA $2000; PHP; PLP; JMP $8007 with the handler RTI at
      \* $8010
      At(0, <<169, 128, 141, 0, 32, 8, 40, 76, 7, 128>>) @@ At(16, <<64>>)
          @@ DrvVectors,
      \* LDA $2002; NOP; JMP $8000: polls the status, NMI generation off
      At(0, <<173, 2, 32, 234, 76, 0, 128>>) @@ DrvVectors,
      \* JMP $8000
      At(0, <<76, 0, 128>>) @@ DrvVectors }

\* frames = atoi(argv[2]), 1 when absent or not positive
FrameCounts == {1, 2}

MaxIterations == 60000

\* while (rendered < frames)
loop_head(r, f) == IF r < f THEN "loop" ELSE "done"

InitDriver ==
    /\ \E code \in DrvPrograms :
          /\ image = PrgImage(code)
          /\ NesIs(PowerOn(parse_ines(PrgImage(code)).cart))
    /\ load_state = "accepted" /\ prg_copied = PRG_ROM_BANK_SIZE
    /\ chr_copied = 0
    /\ bus_value = NoValue
    /\ HistInit
    /\ DuoIdle
    /\ frames \in FrameCounts /\ rendered = 0 /\ drv_pc = "loop"
    /\ last_scanline = 0 /\ iterations = 0 /\ nmi_raised = 0
    /\ nmi_serviced = 0 /\ wraps = 0
    /\ cpu_prev = cpu /\ twin = NoTwin

\* if (nes.ppu.nmi_triggered) { cpu_nmi(&nes); nes.ppu.nmi_triggered = false; }
service_nmi(n) == [cpu_nmi(n) EXCEPT !.ppu.nmi_triggered = FALSE]

\* for (int i = 0; i < 3; i++) ppu_step(&nes.ppu);
ppu_steps3(p) == ppu_step(ppu_step(ppu_step(p)))

\* on machine c, the PPU cycles that follow the instruction
then_ppu(c) == [c EXCEPT !.ppu = ppu_steps3(@)]

\* variant of iteration that runs the PPU cycles before the instruction
iteration_ppu_first(n) == cpu_step(then_ppu(n))

\* the rest of a pass once the NMI check is done: cpu_step, three ppu_steps
iteration(n) == then_ppu(cpu_step(n))

\* variant of frame_edge that tests the scanline alone
frame_edge_level(scanline, last) == scanline = 0

\* nes.ppu.scanline == 0 && last_scanline == 261
frame_edge(scanline, last) == scanline = 0 /\ last = 261

\* the NMI check at the head of a pass finds nmi_triggered set
DrvNmi ==
    /\ drv_pc = "loop" /\ iterations < MaxIterations
    /\ ppu.nmi_triggered
    /\ SetNES(service_nmi(NES))
    /\ bus_value' = NoValue
    /\ nmi_serviced' = nmi_serviced + 1
    /\ drv_pc' = "cpu"
    /\ UNCHANGED <<frames, rendered, last_scanline, iterations, nmi_raised,
                   wraps, cpu_prev, twin>>
    /\ UNCHANGED <<histVars, inesVars, duoVars>>

\* a pass from the NMI check (nmi_triggered clear, or serviced by DrvNmi)
\* to the loop condition
DrvIteration ==
    /\ \/ drv_pc = "cpu"
       \/ drv_pc = "loop" /\ iterations < MaxIterations /\ ~ppu.nmi_triggered
    /\ SetNES(iteration(NES))
    /\ bus_value' = NoValue
    /\ cpu_steps' = cpu_steps + 1
    /\ ppu_steps' = ppu_steps + 3
    /\ rendered' = rendered
           + (IF frame_edge(ppu'.scanline, last_scanline) THEN 1 ELSE 0)
    /\ last_scanline' = ppu'.scanline
    /\ drv_pc' = loop_head(rendered', frames)
    /\ iterations' = iterations + 1
    /\ nmi_raised' = nmi_raised
           + (IF ~ppu.nmi_triggered /\ ppu'.nmi_triggered THEN 1 ELSE 0)
    /\ wraps' = wraps + (IF ppu'.scanline < ppu.scanline THEN 1 ELSE 0)
    /\ UNCHANGED <<frames, nmi_serviced, cpu_prev, twin>>
    /\ UNCHANGED <<read_since_vblank, latch_hist, bus_accesses>>
    /\ UNCHANGED <<inesVars, duoVars>>

NextDriver == DrvNmi \/ DrvIteration

SpecDriver == InitDriver /\ [][NextDriver]_vars

\* the byte of the loaded image that the CPU sees at addr >= $8000
ImageByte(addr) ==
    Rd(image.rom_data, INES_HEADER_SIZE + (addr % PRG_ROM_BANK_SIZE))

\* the dot the PPU is at, counted from the start of its frame
PpuDot(p) == p.scanline * PPU_CYCLES_PER_LINE + p.cycle

\* C11: every pass of the frame loop first checks nmi_triggered and services
\* the NMI if it is set, then executes exactly one cpu_step (which sees the
\* PPU as it is before that pass's PPU cycles), then exactly three
\* ppu_steps; after k passes exactly 3k PPU cycles have elapsed since reset.
C11_IterationOrder ==
    [][/\ (drv_pc = "loop" /\ ppu.nmi_triggered) =>
              /\ drv_pc' = "cpu" /\ nmi_serviced' = nmi_serviced + 1
              /\ ~ppu'.nmi_triggered
              /\ cpu_steps' = cpu_steps /\ ppu_steps' = ppu_steps
              /\ iterations' = iterations
       /\ (drv_pc = "cpu" \/ (drv_pc = "loop" /\ ~ppu.nmi_triggered)) =>
              /\ drv_pc' \in {"loop", "done"}
              /\ nmi_serviced' = nmi_serviced
              /\ iterations' = iterations + 1
              /\ cpu_steps' = iterations'
              /\ ppu_steps' = 3 * iterations'
              /\ PpuDot(ppu') = (PpuDot(ppu) + 3) % PPU_FRAME
              /\ (/\ ImageByte(cpu.pc) = 173
                  /\ ImageByte(cpu.pc + 1) = 2
                  /\ ImageByte(cpu.pc + 2) = 32) => cpu'.a = ppu.status
      ]_vars

\* the polling program in the pass whose PPU cycles set the VBlank bit: the
\* LDA $2002 of that pass has read the status without it
C11_Witness ==
    /\ drv_pc = "loop" /\ iterations = 27394 /\ ppu_steps = 82182
    /\ cpu_steps = 27394
    /\ cpu.a = 32 /\ ppu.status = 160

\* C12: a frame is emitted in exactly the passes during which the scanline
\* wraps from 261 to 0, so the number of frames emitted always equals the
\* number of wraps since reset.
C12_FramesEqualWraps == rendered = wraps /\ rendered <= frames

C12_Witness == drv_pc = "done" /\ rendered = 2 /\ wraps = 2 /\ frames = 2

\* C13: when nmi_triggered is set at the start of a pass the NMI is serviced
\* before that pass's instruction: PCH, PCL and P with B cleared are pushed,
\* I is set, PC is loaded from $FFFA/$FFFB and nmi_triggered is cleared; each
\* raised edge is serviced exactly once, and at most one NMI is serviced per
\* frame.
C13_NmiServicedOncePerEdge ==
    [][/\ (drv_pc = "loop" /\ ppu.nmi_triggered) =>
              /\ drv_pc' = "cpu" /\ cpu_steps' = cpu_steps
              /\ Rd(ram', 256 + cpu.sp) = cpu.pc \div 256
              /\ Rd(ram', 256 + U8(cpu.sp + 255)) = cpu.pc % 256
              /\ Rd(ram', 256 + U8(cpu.sp + 254)) = ClrBit(cpu.p, FLAG_BREAK)
              /\ cpu'.sp = U8(cpu.sp + 253)
              /\ cpu'.p = SetBit(cpu.p, FLAG_INTERRUPT)
              /\ cpu'.pc = ImageByte(65530) + 256 * ImageByte(65531)
              /\ cpu'.a = cpu.a /\ cpu'.x = cpu.x /\ cpu'.y = cpu.y
              /\ ~ppu'.nmi_triggered
              /\ nmi_serviced' = nmi_serviced + 1
       /\ nmi_serviced' + (IF ppu'.nmi_triggered THEN 1 ELSE 0) = nmi_raised'
       /\ nmi_serviced' <= wraps' + 1
      ]_vars

\* the first NMI of the program that enables NMIs has just been serviced:
\* P was $B4 and $A4 is on the stack
C13_Witness ==
    /\ drv_pc = "cpu" /\ nmi_serviced = 1 /\ nmi_raised = 1 /\ wraps = 0
    /\ cpu.pc = 32784 /\ cpu.sp = 250 /\ cpu.p = 180
    /\ Rd(ram, 256 + 253) = 128 /\ Rd(ram, 256 + 252) = 7
    /\ Rd(ram, 256 + 251) = 164
    /\ HasBit(cpu.p, FLAG_INTERRUPT) /\ ~ppu.nmi_triggered

(***************************************************************************)
(* Nessy CPU executing single instructions in chosen situations: each      *)
(* program sets the registers up with a few instructions and then runs the *)
(* instruction under study; the reset vector chooses where it starts.      *)
(***************************************************************************)
MaxInstrSteps == 7
MaxAluSteps   == 3

\* a 16 KiB PRG bank with code at CPU address start, data at PRG offsets,
\* and the reset vector pointing at start
InstrImage(start, code, data) ==
    PrgImage(At(start % PRG_ROM_BANK_SIZE, code) @@ data
             @@ At(16380, <<start % 256, start \div 256>>))

\* LDA #a; CLC or SEC; ADC #m or SBC #m
AluImages ==
    {InstrImage(32768, <<169, a, c, op, m>>, <<>>) :
        a \in 0..255, c \in {24, 56}, op \in {105, 233},
        m \in {0, 1, 15, 16, 63, 64, 80, 127, 128, 129, 144, 176, 192, 240,
               254, 255}}

\* BPL BMI BVC BVS BCC BCS BNE BEQ
BranchOpcodes == {16, 48, 80, 112, 144, 176, 208, 240}

\* a branch at or near $8000, $80F0, $80FE or $FFF0, after nothing, SEC,
\* LDA #0, LDA #$80, or LDA #$50 and ADC #$50
BranchImages ==
    {InstrImage(start, pre \o <<op, off>>, <<>>) :
        start \in {32768, 33008, 33022, 65520},
        pre \in {<<>>, <<56>>, <<169, 0>>, <<169, 128>>, <<169, 80, 105, 80>>},
        op \in BranchOpcodes, off \in {0, 16, 127, 128, 240, 253}}

\* ORA AND EOR ADC SBC CMP LDA LDY with abs,X
AbsXOpcodes == {29, 61, 93, 125, 253, 221, 189, 188}
\* ORA AND EOR ADC SBC CMP LDA LDX with abs,Y
AbsYOpcodes == {25, 57, 89, 121, 249, 217, 185, 190}

\* LDX #x; LDY #y; the indexed read
IndexedImages ==
    {InstrImage(36864, <<162, xy[1], 160, xy[2], op, base % 256, base \div 256>>,
                <<>>) :
        xy \in {<<0, 255>>, <<1, 0>>, <<16, 1>>, <<255, 16>>},
        op \in AbsXOpcodes \cup AbsYOpcodes,
        base \in {255, 256, 2032, 32768, 33008, 65535}}

\* JMP (ptr) on PRG bytes, and the pointer $10FF built in RAM:
\* LDA #$34; STA $10FF; LDA #$12; STA $1000; LDA #$56; STA $1100; JMP ($10FF)
IndirectImages ==
    {InstrImage(36864, <<108, ptr % 256, ptr \div 256>>,
                At(0, <<18>>) @@ At(15, <<120, 154>>) @@ At(255, <<52, 86>>)
                @@ At(510, <<188, 222>>) @@ At(16128, <<171>>)
                @@ At(16383, <<205>>)) :
        ptr \in {32783, 33023, 33278, 49151}}
    \cup {InstrImage(32768, <<169, 52, 141, 255, 16, 169, 18, 141, 0, 16,
                             169, 86, 141, 0, 17, 108, 255, 16>>, <<>>)}

\* nothing or LDX #s; TXS, then JSR target, and an RTS at the target
JsrImages ==
    {InstrImage(start, pre \o <<32, t % 256, t \div 256>>,
                At(t % PRG_ROM_BANK_SIZE, <<96>>)) :
        start \in {32768, 33018, 33021, 33022},
        pre \in {<<>>} \cup {<<162, sp, 154>> : sp \in {0, 1, 128, 255}},
        t \in {36864, 54038}}

UnknownOpcodes == {op \in 0..255 : OpInfo(op).mn = "unknown"}

\* nothing, or LDA #$CF; TAX; PHA, then an opcode outside the table
UnknownImages ==
    {InstrImage(32768, pre \o <<op>>, <<>>) :
        pre \in {<<>>, <<169, 207, 170, 72>>}, op \in UnknownOpcodes}

InstrImages ==
    BranchImages \cup IndexedImages \cup IndirectImages
    \cup JsrImages \cup UnknownImages

\* the machine loaded with one of imgs and reset
InitWith(imgs) ==
    /\ \E img \in imgs :
          /\ image = img
          /\ NesIs(PowerOn(parse_ines(img).cart))
    /\ load_state = "accepted" /\ prg_copied = PRG_ROM_BANK_SIZE
    /\ chr_copied = 0
    /\ bus_value = NoValue
    /\ HistInit
    /\ DuoIdle
    /\ DrvIdle

\* one cpu_step; cpu_prev keeps the registers the instruction started from
StepWithin(bound) ==
    /\ cpu_steps < bound
    /\ SetNES(cpu_step(NES))
    /\ cpu_steps' = cpu_steps + 1
    /\ cpu_prev' = cpu
    /\ bus_value' = NoValue
    /\ UNCHANGED <<ppu_steps, read_since_vblank, latch_hist, bus_accesses>>
    /\ UNCHANGED <<drv_pc, frames, rendered, last_scanline, iterations,
                   nmi_raised, nmi_serviced, wraps, twin>>
    /\ UNCHANGED <<inesVars, duoVars>>

InitInstr == InitWith(InstrImages)

NextInstr == StepWithin(MaxInstrSteps)

SpecInstr == InitInstr /\ [][NextInstr]_vars

InitAlu == InitWith(AluImages)

NextAlu == StepWithin(MaxAluSteps)

SpecAlu == InitAlu /\ [][NextAlu]_vars

\* the instruction about to execute has opcode op, fetched from PRG
AtOpcode(op) == cpu.pc >= 32768 /\ ImageByte(cpu.pc) = op

\* the byte and the 16-bit word that follow the opcode
OperandByte == ImageByte(cpu.pc + 1)
OperandWord == ImageByte(cpu.pc + 1) + 256 * ImageByte(cpu.pc + 2)

CarryIn(c) == c.p % 2

\* the flags of P other than C, Z, V and N
OtherFlags(c) == {f \in {FLAG_INTERRUPT, FLAG_DECIMAL, FLAG_BREAK, FLAG_UNUSED} :
                     HasBit(c.p, f)}

\* the CPU record c holds the sum of the 8-bit values av and mv and the
\* carry cin, with the flags the sum defines
IsSumOf(c, av, mv, cin) ==
    LET sum == av + mv + cin
        R   == sum % 256
    IN  /\ c.a = R
        /\ HasBit(c.p, FLAG_CARRY) <=> sum > 255
        /\ HasBit(c.p, FLAG_ZERO) <=> R = 0
        /\ HasBit(c.p, FLAG_NEGATIVE) <=> R >= 128
        /\ HasBit(c.p, FLAG_OVERFLOW) <=>
               ((av >= 128) <=> (mv >= 128)) /\ ~((R >= 128) <=> (av >= 128))

\* C14: for every A, M and carry C, ADC leaves A' = (A + M + C) mod 256,
\* C' set exactly when the sum exceeds 255, Z and N from A', and V set
\* exactly when A and M have the same sign and the result's sign differs.
C14_AdcSum ==
    [][AtOpcode(105) =>
           /\ IsSumOf(cpu', cpu.a, OperandByte, CarryIn(cpu))
           /\ OtherFlags(cpu') = OtherFlags(cpu)
           /\ cpu'.x = cpu.x /\ cpu'.y = cpu.y /\ cpu'.sp = cpu.sp
           /\ cpu'.pc = cpu.pc + 2
      ]_vars

\* $50 + $50 with carry clear has given $A0 with C = 0, V = 1, N = 1, Z = 0
C14_Witness ==
    /\ cpu_steps = 3 /\ ImageByte(cpu_prev.pc) = 105
    /\ cpu_prev.a = 80 /\ ImageByte(cpu_prev.pc + 1) = 80
    /\ CarryIn(cpu_prev) = 0
    /\ cpu.a = 160
    /\ ~HasBit(cpu.p, FLAG_CARRY) /\ HasBit(cpu.p, FLAG_OVERFLOW)
    /\ HasBit(cpu.p, FLAG_NEGATIVE) /\ ~HasBit(cpu.p, FLAG_ZERO)

\* C15: SBC of M is ADC of the one's complement of M: for every A, M and C,
\* A' = (A - M - (1 - C)) mod 256, C' is cleared exactly when a borrow
\* occurs, and every flag is the one ADC gives for ~M & $FF.
C15_SbcIsAdcOfComplement ==
    [][AtOpcode(233) =>
           LET diff == cpu.a - OperandByte - (1 - CarryIn(cpu))
           IN  /\ IsSumOf(cpu', cpu.a, 255 - OperandByte, CarryIn(cpu))
               /\ cpu'.a = (diff + 256) % 256
               /\ ~HasBit(cpu'.p, FLAG_CARRY) <=> diff < 0
               /\ OtherFlags(cpu') = OtherFlags(cpu)
               /\ cpu'.x = cpu.x /\ cpu'.y = cpu.y /\ cpu'.sp = cpu.sp
               /\ cpu'.pc = cpu.pc + 2
      ]_vars

\* $50 - $B0 with carry set has given $A0 with C = 0, V = 1, N = 1, Z = 0
C15_Witness ==
    /\ cpu_steps = 3 /\ ImageByte(cpu_prev.pc) = 233
    /\ cpu_prev.a = 80 /\ ImageByte(cpu_prev.pc + 1) = 176
    /\ CarryIn(cpu_prev) = 1
    /\ cpu.a = 160
    /\ ~HasBit(cpu.p, FLAG_CARRY) /\ HasBit(cpu.p, FLAG_OVERFLOW)
    /\ HasBit(cpu.p, FLAG_NEGATIVE) /\ ~HasBit(cpu.p, FLAG_ZERO)

\* the condition each branch opcode tests, on the flags of the CPU record c
BranchTaken(op, c) ==
    CASE op = 16  -> ~HasBit(c.p, FLAG_NEGATIVE)
      [] op = 48  -> HasBit(c.p, FLAG_NEGATIVE)
      [] op = 80  -> ~HasBit(c.p, FLAG_OVERFLOW)
      [] op = 112 -> HasBit(c.p, FLAG_OVERFLOW)
      [] op = 144 -> ~HasBit(c.p, FLAG_CARRY)
      [] op = 176 -> HasBit(c.p, FLAG_CARRY)
      [] op = 208 -> ~HasBit(c.p, FLAG_ZERO)
      [] op = 240 -> HasBit(c.p, FLAG_ZERO)

\* the cycles and the PC a branch at c.pc with operand byte off must give
BranchCycles(c, off, taken) ==
    LET after  == (c.pc + 2) % 65536
        signed == IF off >= 128 THEN off - 256 ELSE off
        target == (after + signed + 65536) % 65536
    IN  [pc |-> IF taken THEN target ELSE after,
         cycles |-> IF ~taken THEN 2
                    ELSE IF target \div 256 = after \div 256 THEN 3 ELSE 4]

\* C16: each of the eight branches costs 2 cycles untaken, 3 taken to the
\* page of the address after the operand, 4 taken to another page; a taken
\* branch goes to (address after the operand + signed offset) mod 65536 and
\* an untaken one leaves PC just past the operand.
C16_BranchCycles ==
    [][\A op \in BranchOpcodes :
           AtOpcode(op) =>
               LET e == BranchCycles(cpu, OperandByte, BranchTaken(op, cpu))
               IN  /\ cpu'.pc = e.pc
                   /\ cpu'.cycles = cpu.cycles + e.cycles
                   /\ cpu'.a = cpu.a /\ cpu'.x = cpu.x /\ cpu'.y = cpu.y
                   /\ cpu'.sp = cpu.sp /\ cpu'.p = cpu.p
      ]_vars

\* a taken BPL at $80FE with offset -3 has gone to $80FD, off the page of
\* the address after its operand ($8100), for 4 cycles
C16_Witness ==
    /\ cpu_steps = 1 /\ cpu_prev.pc = 33022
    /\ ImageByte(cpu_prev.pc) = 16 /\ ImageByte(cpu_prev.pc + 1) = 253
    /\ cpu.pc = 33021 /\ cpu.cycles = cpu_prev.cycles + 4

\* C17: the abs,X and abs,Y forms of ORA, AND, EOR, ADC, SBC, CMP, LDA, LDX
\* and LDY cost 4 cycles, plus 1 exactly when the high byte of
\* (base + index) mod 65536 differs from the high byte of base.
C17_IndexedReadCycles ==
    [][\A op \in AbsXOpcodes \cup AbsYOpcodes :
           AtOpcode(op) =>
               LET base  == OperandWord
                   index == IF op \in AbsXOpcodes THEN cpu.x ELSE cpu.y
                   eff   == (base + index) % 65536
               IN  /\ cpu'.cycles = cpu.cycles + 4
                          + (IF eff \div 256 # base \div 256 THEN 1 ELSE 0)
                   /\ cpu'.pc = cpu.pc + 3
      ]_vars

\* LDA $FFFF,X with X = 1 has read $0000, past the top of the address
\* space, for 5 cycles
C17_Witness ==
    /\ cpu_steps = 3 /\ cpu_prev.pc >= 32768
    /\ ImageByte(cpu_prev.pc) = 189
    /\ ImageByte(cpu_prev.pc + 1) = 255 /\ ImageByte(cpu_prev.pc + 2) = 255
    /\ cpu_prev.x = 1 /\ cpu_prev.y = 0
    /\ cpu.cycles = cpu_prev.cycles + 5

\* the byte the CPU sees at addr in RAM (below $2000) or in PRG
MemByte(addr) == IF addr < 8192 THEN Rd(ram, addr % 2048) ELSE ImageByte(addr)

\* C18: JMP (ptr) takes the low byte of its target from mem[ptr] and the
\* high byte from mem[(ptr & $FF00) | ((ptr + 1) & $FF)], which is not
\* mem[ptr + 1] exactly when the low byte of ptr is $FF.
C18_JmpIndirectPageWrap ==
    [][AtOpcode(108) =>
           LET ptr     == OperandWord
               hi_addr == ((ptr \div 256) * 256) + ((ptr + 1) % 256)
           IN  /\ cpu'.pc = MemByte(ptr) + 256 * MemByte(hi_addr)
               /\ (hi_addr # ((ptr + 1) % 65536)) <=> (ptr % 256 = 255)
               /\ cpu'.cycles = cpu.cycles + 5
               /\ cpu'.a = cpu.a /\ cpu'.x = cpu.x /\ cpu'.y = cpu.y
               /\ cpu'.sp = cpu.sp /\ cpu'.p = cpu.p
      ]_vars

\* JMP ($10FF) with mem[$10FF] = $34, mem[$1000] = $12 and mem[$1100] = $56
\* has gone to $1234
C18_Witness ==
    /\ cpu_steps = 7 /\ cpu_prev.pc = 32783
    /\ ImageByte(32783) = 108 /\ ImageByte(32784) = 255 /\ ImageByte(32785) = 16
    /\ Rd(ram, 255) = 52 /\ Rd(ram, 0) = 18 /\ Rd(ram, 256) = 86
    /\ cpu.pc = 4660

\* C19: at any PC and SP, JSR pushes the high then the low byte of
\* (address after its operand - 1) and jumps to its operand; the RTS it
\* reaches next returns to the address after the operand with SP as it was
\* before the JSR, also when the stack pointer wraps.
C19_JsrRtsRoundTrip ==
    [][/\ AtOpcode(32) =>
              LET ret == (cpu.pc + 2) % 65536
              IN  /\ Rd(ram', 256 + cpu.sp) = ret \div 256
                  /\ Rd(ram', 256 + ((cpu.sp + 255) % 256)) = ret % 256
                  /\ cpu'.sp = (cpu.sp + 254) % 256
                  /\ cpu'.pc = OperandWord
                  /\ cpu'.cycles = cpu.cycles + 6
                  /\ cpu'.a = cpu.a /\ cpu'.x = cpu.x /\ cpu'.y = cpu.y
                  /\ cpu'.p = cpu.p
       /\ (/\ AtOpcode(96) /\ cpu_steps >= 1 /\ cpu_prev.pc >= 32768
           /\ ImageByte(cpu_prev.pc) = 32
           /\ cpu.pc = ImageByte(cpu_prev.pc + 1)
                           + 256 * ImageByte(cpu_prev.pc + 2)) =>
              /\ cpu'.pc = (cpu_prev.pc + 3) % 65536
              /\ cpu'.sp = cpu_prev.sp
              /\ cpu'.cycles = cpu.cycles + 6
              /\ ram' = ram
      ]_vars

\* JSR at $80FD with SP = $00 has pushed $80 at $0100 and $FF at $01FF, and
\* the RTS has come back to $8100 with SP = $00
C19_Witness ==
    /\ cpu_steps = 4 /\ ImageByte(33021) = 32
    /\ cpu_prev.pc = ImageByte(33022) + 256 * ImageByte(33023)
    /\ ImageByte(cpu_prev.pc) = 96 /\ cpu_prev.sp = 254
    /\ Rd(ram, 256) = 128 /\ Rd(ram, 511) = 255
    /\ cpu.pc = 33024 /\ cpu.sp = 0

\* C20: an opcode without a case in the table never stops cpu_step: PC
\* advances by 1, cycles by 2, and A, X, Y, SP, P and all memory stay as
\* they are.
C20_UnknownOpcodeIsTwoCycleNop ==
    [][\A op \in UnknownOpcodes :
           AtOpcode(op) =>
               /\ cpu'.pc = (cpu.pc + 1) % 65536
               /\ cpu'.cycles = cpu.cycles + 2
               /\ cpu'.a = cpu.a /\ cpu'.x = cpu.x /\ cpu'.y = cpu.y
               /\ cpu'.sp = cpu.sp /\ cpu'.p = cpu.p
               /\ ram' = ram /\ ppu' = ppu /\ vram' = vram
               /\ palette' = palette /\ oam' = oam /\ cart' = cart
               /\ cpu_steps' = cpu_steps + 1
      ]_vars

\* opcode $02 has executed after LDA #$CF; TAX; PHA and left the registers
\* and the pushed byte alone
C20_Witness ==
    /\ cpu_steps = 4 /\ cpu_prev.pc = 32772 /\ ImageByte(32772) = 2
    /\ cpu.pc = 32773 /\ cpu.cycles = cpu_prev.cycles + 2
    /\ cpu.a = 207 /\ cpu.x = 207 /\ cpu.sp = 252 /\ Rd(ram, 509) = 207

(***************************************************************************)
(* DuoVM: the driver loop of main (src/duovm.c:241-244)                    *)
(***************************************************************************)
BURST_LEN == 20000
MaxBurstSteps == 20010

DuoMainPrograms ==
    { <<0, 0, 224, 160, 32, 3, 0>>,   \* A <- 0xE000; read button; JMP 3
      <<32, 0, 0>>,                   \* JMP 0
      <<160>> }                       \* read button -> mem[0]

InitDuoMain ==
    /\ \E prog \in DuoMainPrograms :
          /\ memory = ProgramMemory(prog)
          /\ loaded = ProgramMemory(prog)
    /\ PC = 0 /\ A = 0 /\ T = 0 /\ D0 = 0 /\ D1 = 0 /\ C = FALSE
    /\ running = TRUE /\ waiting_key = FALSE /\ cur_x = 0 /\ cur_y = 0
    /\ vm_exit = "running" /\ duo_steps = 0
    /\ last_store = [addr |-> NoValue, value |-> NoValue]
    /\ duo_pc = "outer" /\ burst_i = 0 /\ burst_inputs = 0
    /\ NesIdle
    /\ InesIdle
    /\ DrvIdle

\* i < 20000 && !waiting_key
burst_continues(i, waiting) == i < BURST_LEN /\ ~waiting

\* while (running): enter the for loop with i = 0
DuoBurstEnter ==
    /\ duo_pc = "outer" /\ Live(VM) /\ running
    /\ duo_steps < MaxBurstSteps
    /\ duo_pc' = "burst" /\ burst_i' = 0 /\ burst_inputs' = 0
    /\ UNCHANGED <<memory, loaded, PC, A, T, D0, D1, C, running, waiting_key,
                   cur_x, cur_y, vm_exit, duo_steps, last_store>>
    /\ UNCHANGED <<nesVars, histVars, inesVars, drvVars>>

\* the loop condition holds: step(); i++
DuoBurstStep ==
    /\ duo_pc = "burst" /\ Live(VM)
    /\ burst_continues(burst_i, waiting_key)
    /\ duo_steps < MaxBurstSteps
    /\ \E b \in Buttons : SetVM(step(VM, b))
    /\ burst_i' = burst_i + 1
    /\ burst_inputs' = burst_inputs + (IF mem_read(VM, PC) = 160 THEN 1 ELSE 0)
    /\ duo_steps' = duo_steps + 1
    /\ UNCHANGED <<loaded, duo_pc>>
    /\ UNCHANGED <<nesVars, histVars, inesVars, drvVars>>

\* the loop condition fails: back to while (running)
DuoBurstExit ==
    /\ duo_pc = "burst" /\ Live(VM)
    /\ ~burst_continues(burst_i, waiting_key)
    /\ duo_pc' = "outer"
    /\ UNCHANGED <<memory, loaded, PC, A, T, D0, D1, C, running, waiting_key,
                   cur_x, cur_y, vm_exit, duo_steps, last_store, burst_i,
                   burst_inputs>>
    /\ UNCHANGED <<nesVars, histVars, inesVars, drvVars>>

NextDuoMain == DuoBurstEnter \/ DuoBurstStep \/ DuoBurstExit

SpecDuoMain == InitDuoMain /\ [][NextDuoMain]_vars

\* C21: an instruction that enters the blocking input read (opcode 0xA0)
\* ends the current burst: no instruction executes in a burst after an
\* input instruction of that burst.
C21_InputEndsBurst ==
    [][(duo_pc = "burst" /\ duo_steps' = duo_steps + 1) => burst_inputs = 0]_vars

(***************************************************************************)
(* PPU address and data registers ($2006, $2007) driven by CPU bus         *)
(* accesses, on a cartridge with one CHR bank                              *)
(***************************************************************************)
MaxDataAccesses == 5

\* a mapper-0 image with one zeroed PRG bank and one CHR bank; chr maps
\* offsets in the CHR bank to bytes
ChrImage(chr) ==
    [rom_size |-> INES_HEADER_SIZE + PRG_ROM_BANK_SIZE + CHR_ROM_BANK_SIZE,
     rom_data |-> Cells(At(0, <<78, 69, 83, 26, 1, 1, 0, 0>>)
                        @@ [a \in {x + INES_HEADER_SIZE + PRG_ROM_BANK_SIZE :
                                      x \in DOMAIN chr} |->
                               chr[a - INES_HEADER_SIZE - PRG_ROM_BANK_SIZE]])]

\* CHR bytes at $0000-$0001, $0020 and $1FFF
DataChr == At(0, <<17, 34>>) @@ At(32, <<51>>) @@ At(8191, <<68>>)

InitPpuData ==
    /\ NesIs(PowerOn(parse_ines(ChrImage(DataChr)).cart))
    /\ image = ChrImage(DataChr)
    /\ load_state = "accepted" /\ prg_copied = PRG_ROM_BANK_SIZE
    /\ chr_copied = CHR_ROM_BANK_SIZE
    /\ bus_value = NoValue
    /\ HistInit
    /\ DuoIdle
    /\ DrvIdle

\* cpu_read of $2000, $2002, $2004 or $2007
DataRegRead ==
    /\ bus_accesses < MaxDataAccesses
    /\ \E addr \in {8192, 8194, 8196, 8199} : BusRead(addr)
    /\ bus_accesses' = bus_accesses + 1

\* cpu_write of $2000, $2005, $2006 or $2007
DataRegWrite ==
    /\ bus_accesses < MaxDataAccesses
    /\ \E addr \in {8192, 8197, 8198, 8199}, value \in {32, 63, 255} :
           BusWrite(addr, value)
    /\ bus_accesses' = bus_accesses + 1

NextPpuData == DataRegRead \/ DataRegWrite

SpecPpuData == InitPpuData /\ [][NextPpuData]_vars

\* this step is a CPU read of PPU register reg
ReadOf(reg) ==
    \E addr \in {8192, 8194, 8196, 8199} : addr % 8 = reg /\ BusRead(addr)

\* this step is a CPU write to PPU register 7
DataWrite == \E value \in {32, 63, 255} : BusWrite(8199, value)

\* C22: a read of register 7 whose 14-bit PPU bus address is below $3F00
\* returns the byte held in read_buffer and sets read_buffer to the byte at
\* the current VRAM address; a read addressing the palette returns the
\* palette byte at once and sets read_buffer to the byte at
\* vram_addr - $1000.
C22_BufferedDataRead ==
    [][ReadOf(7) =>
           IF ppu.vram_addr % 16384 < 16128
           THEN /\ bus_value' = ppu.read_buffer
                /\ ppu'.read_buffer = ppu_read(NES, ppu.vram_addr)
           ELSE /\ bus_value' = Rd(palette, ppu.vram_addr % 32)
                /\ ppu'.read_buffer =
                       ppu_read(NES, (ppu.vram_addr + 61440) % 65536)
      ]_vars

\* C24: every read and every write of register 7 adds 32 to vram_addr when
\* ctrl bit 2 is set and 1 otherwise (in 16 bits), and no read of another
\* PPU register changes vram_addr.
C24_DataAccessIncrements ==
    [][/\ (ReadOf(7) \/ DataWrite) =>
              ppu'.vram_addr =
                  (ppu.vram_addr + (IF HasBit(ppu.ctrl, 4) THEN 32 ELSE 1))
                      % 65536
       /\ (ReadOf(0) \/ ReadOf(2) \/ ReadOf(4)) =>
              ppu'.vram_addr = ppu.vram_addr
      ]_vars

\* with ctrl bit 2 set, a read and a write of register 7 have moved
\* vram_addr from $3F3F to $3F7F
C24_Witness ==
    /\ bus_accesses = 5 /\ HasBit(ppu.ctrl, 4)
    /\ ppu.temp_addr % 16384 = 16191 /\ ppu.vram_addr = 16255
    /\ Rd(palette, 31) = 32 /\ bus_value = 32

\* C25: vram_addr is a 15-bit value in every state reachable by PPU
\* register reads and writes.
C25_VramAddrFifteenBits == ppu.vram_addr < 32768

(***************************************************************************)
(* Two runs of both programs side by side: the same ROM image, the same    *)
(* initial memory, and the same button at every input instruction          *)
(***************************************************************************)
MaxTwinSteps == 5

\* the images of the frame-loop programs and an image with three PRG banks
TwinImages ==
    {PrgImage(code) : code \in DrvPrograms}
    \cup {HeaderImage(78, 3, 0, 0, 0, BodySize(3, 0, 0))}

\* main after parse_ines with outcome o: ppu_reset and cpu_reset follow when
\* the process goes on and the reset vector can be read
Booted(n, o) ==
    IF o.state = "accepted" /\ o.cart.prg_rom_size # 0
    THEN PowerOn(o.cart)
    ELSE [n EXCEPT !.cart = o.cart]

Runs(s) == s = "accepted" /\ twin.load_state = "accepted"

InitTwin ==
    /\ image \in TwinImages
    /\ load_state = "loaded" /\ prg_copied = 0 /\ chr_copied = 0
    /\ NesIdle
    /\ \E prog \in DuoMainPrograms :
          /\ memory = ProgramMemory(prog)
          /\ loaded = ProgramMemory(prog)
    /\ PC = 0 /\ A = 0 /\ T = 0 /\ D0 = 0 /\ D1 = 0 /\ C = FALSE
    /\ running = TRUE /\ waiting_key = FALSE /\ cur_x = 0 /\ cur_y = 0
    /\ vm_exit = "running" /\ duo_steps = 0
    /\ last_store = [addr |-> NoValue, value |-> NoValue]
    /\ duo_pc = "off" /\ burst_i = 0 /\ burst_inputs = 0
    /\ LoopIdle
    /\ twin = [load_state |-> "loaded", nes |-> NES, vm |-> VM]

\* both runs parse the image and reset the machine
TwinLoad ==
    /\ load_state = "loaded"
    /\ LET r == parse_ines(image)
       IN  IF r.ok
           THEN /\ \E o1 \in OverflowOutcomes(r), o2 \in OverflowOutcomes(r) :
                      /\ load_state' = o1.state
                      /\ SetNES(Booted(NES, o1))
                      /\ twin' = [twin EXCEPT !.load_state = o2.state,
                                              !.nes = Booted(@, o2)]
                /\ prg_copied' = r.prg_copied
                /\ chr_copied' = r.chr_copied
           ELSE /\ load_state' = "rejected"
                /\ twin' = [twin EXCEPT !.load_state = "rejected"]
                /\ UNCHANGED <<cpu, ppu, vram, palette, oam, cart, ram,
                               prg_copied, chr_copied>>
    /\ UNCHANGED <<bus_value, image, histVars, duoVars>>
    /\ UNCHANGED <<drv_pc, frames, rendered, last_scanline, iterations,
                   nmi_raised, nmi_serviced, wraps, cpu_prev>>

\* both runs execute one pass of the frame loop
TwinNesStep ==
    /\ Runs(load_state)
    /\ cart.prg_rom_size # 0 /\ twin.nes.cart.prg_rom_size # 0
    /\ cpu_steps < MaxTwinSteps
    /\ SetNES(iteration(NES))
    /\ twin' = [twin EXCEPT !.nes = iteration(@)]
    /\ cpu_steps' = cpu_steps + 1
    /\ UNCHANGED <<bus_value, ppu_steps, read_since_vblank, latch_hist,
                   bus_accesses, inesVars, duoVars>>
    /\ UNCHANGED <<drv_pc, frames, rendered, last_scanline, iterations,
                   nmi_raised, nmi_serviced, wraps, cpu_prev>>

\* both runs execute one step of DuoVM and read the same button
TwinDuoStep ==
    /\ Live(VM) /\ running /\ Live(twin.vm) /\ twin.vm.running
    /\ duo_steps < MaxTwinSteps
    /\ \E b \in Buttons :
          /\ SetVM(step(VM, b))
          /\ twin' = [twin EXCEPT !.vm = step(@, b)]
    /\ duo_steps' = duo_steps + 1
    /\ UNCHANGED <<loaded, duo_pc, burst_i, burst_inputs>>
    /\ UNCHANGED <<nesVars, histVars, inesVars>>
    /\ UNCHANGED <<drv_pc, frames, rendered, last_scanline, iterations,
                   nmi_raised, nmi_serviced, wraps, cpu_prev>>

NextTwin == TwinLoad \/ TwinNesStep \/ TwinDuoStep

SpecTwin == InitTwin /\ [][NextTwin]_vars

MaxDecodeAccesses == 3

\* images with one and with two PRG banks; the first and the last byte of
\* every bank are marked
DecodeImages ==
    {[HeaderImage(78, banks, 0, 0, 0, BodySize(banks, 0, 0)) EXCEPT
         !.rom_data = @ @@ At(INES_HEADER_SIZE, <<17>>)
                        @@ At(INES_HEADER_SIZE + PRG_ROM_BANK_SIZE - 1, <<34>>)
                        @@ (IF banks = 2
                            THEN At(INES_HEADER_SIZE + PRG_ROM_BANK_SIZE, <<51>>)
                                 @@ At(INES_HEADER_SIZE + 2 * PRG_ROM_BANK_SIZE - 1,
                                       <<68>>)
                            ELSE EmptyMem)]
     : banks \in {1, 2}}

\* RAM and its mirrors, PPU registers 3 and 4 and their last mirrors, the
\* unmapped range, and both halves of the PRG window
DecodeAddrs ==
    {0, 2047, 2048, 8191, 8195, 8196, 16379, 16380,
     16384, 16406, 32767, 32768, 49151, 49152, 65535}

DecodeValues == {90, 165}

InitDecode ==
    /\ \E img \in DecodeImages :
          /\ image = img
          /\ NesIs(PowerOn(parse_ines(img).cart))
          /\ prg_copied = parse_ines(img).prg_copied
    /\ load_state = "accepted" /\ chr_copied = 0
    /\ bus_value = NoValue
    /\ HistInit
    /\ DuoIdle
    /\ DrvIdle

DecodeRead ==
    /\ bus_accesses < MaxDecodeAccesses
    /\ \E addr \in DecodeAddrs : BusRead(addr)
    /\ bus_accesses' = bus_accesses + 1

DecodeWrite ==
    /\ bus_accesses < MaxDecodeAccesses
    /\ \E addr \in DecodeAddrs, value \in DecodeValues : BusWrite(addr, value)
    /\ bus_accesses' = bus_accesses + 1

NextDecode == DecodeRead \/ DecodeWrite

SpecDecode == InitDecode /\ [][NextDecode]_vars

NesUnchanged == UNCHANGED <<cpu, ppu, vram, palette, oam, cart, ram>>

\* C27: an address below $2000 reads and writes RAM[addr mod $800], so a
\* byte written through one mirror is read back through every mirror; an
\* address in $2000-$3FFF goes to PPU register addr mod 8; an address from
\* $8000 reads PRG-ROM[(addr - $8000) mod prg_size]; reads of $4000-$7FFF
\* return 0; writes from $4000 change nothing, so PRG-ROM is never modified.
C27_BusDecode ==
    [][/\ \A addr \in DecodeAddrs :
             BusRead(addr) =>
                 IF addr < 8192
                 THEN bus_value' = Rd(ram, addr % 2048) /\ NesUnchanged
                 ELSE IF addr < 16384
                 THEN /\ bus_value' = ppu_read_register(NES, addr % 8).v
                      /\ SetNES(ppu_read_register(NES, addr % 8).n)
                 ELSE IF addr >= 32768
                 THEN /\ bus_value' =
                             Rd(cart.prg_rom,
                                (addr - 32768) % cart.prg_rom_size)
                      /\ NesUnchanged
                 ELSE bus_value' = 0 /\ NesUnchanged
       /\ \A addr \in DecodeAddrs, value \in DecodeValues :
             BusWrite(addr, value) =>
                 IF addr < 8192
                 THEN /\ ram' = Wr(ram, addr % 2048, value)
                      /\ \A k \in 0..3 :
                            cpu_read(NES', (addr % 2048) + 2048 * k).v = value
                      /\ UNCHANGED <<cpu, ppu, vram, palette, oam, cart>>
                 ELSE IF addr < 16384
                 THEN SetNES(ppu_write_register(NES, addr % 8, value))
                 ELSE NesUnchanged
       /\ cart'.prg_rom = cart.prg_rom
      ]_vars

\* on the two-bank cartridge, a byte written at $1FFF has been read back at
\* $07FF and the last byte of the second bank read at $FFFF
C27_Witness ==
    /\ bus_accesses = 3 /\ cart.prg_rom_size = 2 * PRG_ROM_BANK_SIZE
    /\ Rd(ram, 2047) = 165 /\ bus_value = 68
    /\ latch_hist = NoLatchHist

(***************************************************************************)
(* Stack instructions: PHA, PHP, PLA, PLP, BRK and RTI at every SP         *)
(***************************************************************************)
MaxStackSteps == 9

\* LDX #s; TXS; LDA #v; PHA; PLP; PHP; PLA; BRK with the IRQ vector $9000
\* and RTI there; LDA #v; PHA; RTI; and JMP $FFFF with BRK at $FFFF
StackImages ==
    {InstrImage(32768, <<162, s, 154, 169, v, 72, 40, 8, 104, 0>>,
                At(4096, <<64>>) @@ At(16382, <<0, 144>>)) :
        s \in 0..255, v \in {0, 207, 255}}
    \cup {InstrImage(32768, <<169, v, 72, 64>>, <<>>) : v \in {0, 207, 255}}
    \cup {InstrImage(32768, <<76, 255, 255>>, <<>>)}

InitStack == InitWith(StackImages)

NextStack == StepWithin(MaxStackSteps)

SpecStack == InitStack /\ [][NextStack]_vars

\* the byte on the stack k places above SP, and the stack address k places
\* below SP
Popped(k) == Rd(ram, 256 + ((cpu.sp + k) % 256))
PushedAt(k) == 256 + ((cpu.sp + 256 - k) % 256)

\* C28: PHP and BRK push the status with bits 4 and 5 both set whatever P
\* holds; PLP and RTI set P to the popped byte with bit 5 forced to 1.
C28_StatusOnStack ==
    [][/\ AtOpcode(8) => Rd(ram', PushedAt(0)) = Or(cpu.p, 48)
       /\ AtOpcode(0) => Rd(ram', PushedAt(2)) = Or(cpu.p, 48)
       /\ AtOpcode(40) => cpu'.p = Or(Popped(1), FLAG_UNUSED)
       /\ AtOpcode(64) => cpu'.p = Or(Popped(1), FLAG_UNUSED)
      ]_vars

\* C29: BRK at address a pushes the high and then the low byte of
\* (a + 2) mod 65536, then P | $30, sets I, loads PC from $FFFE/$FFFF,
\* lowers SP by 3 modulo 256 and costs 7 cycles; an RTI that finds the
\* stack as BRK left it returns PC to a + 2 and SP to its value before BRK.
C29_BrkRtiRoundTrip ==
    [][/\ AtOpcode(0) =>
              /\ Rd(ram', PushedAt(0)) = ((cpu.pc + 2) % 65536) \div 256
              /\ Rd(ram', PushedAt(1)) = ((cpu.pc + 2) % 65536) % 256
              /\ Rd(ram', PushedAt(2)) = Or(cpu.p, 48)
              /\ cpu'.p = Or(cpu.p, FLAG_INTERRUPT)
              /\ cpu'.pc = ImageByte(65534) + 256 * ImageByte(65535)
              /\ cpu'.sp = (cpu.sp + 253) % 256
              /\ cpu'.cycles = cpu.cycles + 7
       /\ (/\ AtOpcode(64) /\ cpu_steps >= 1 /\ cpu_prev.pc >= 32768
           /\ ImageByte(cpu_prev.pc) = 0
           /\ cpu.pc = ImageByte(65534) + 256 * ImageByte(65535)) =>
              /\ cpu'.pc = (cpu_prev.pc + 2) % 65536
              /\ cpu'.sp = cpu_prev.sp
      ]_vars

\* BRK at $8009 with SP = 1 has wrapped the stack, and the RTI at $9000 has
\* returned to $800B with SP = 1
C29_Witness ==
    /\ cpu_steps = 9 /\ cpu_prev.pc = 36864 /\ ImageByte(36864) = 64
    /\ cpu_prev.sp = 254 /\ cpu.sp = 1 /\ cpu.pc = 32779
    /\ Rd(ram, 257) = 128 /\ Rd(ram, 256) = 11 /\ Rd(ram, 511) = 253

\* C30: a push writes RAM[$100 + SP] and then decrements SP modulo 256; a
\* pop increments SP modulo 256 and then reads RAM[$100 + SP]; at every SP
\* from 0 to 255 the stack instructions change RAM only in $0100-$01FF; a
\* push followed by a pop returns the pushed byte and restores SP.
C30_PushPop ==
    [][/\ AtOpcode(72) =>
              /\ ram' = Wr(ram, 256 + cpu.sp, cpu.a)
              /\ cpu'.sp = (cpu.sp + 255) % 256
       /\ AtOpcode(8) =>
              /\ ram' = Wr(ram, 256 + cpu.sp, Or(cpu.p, 48))
              /\ cpu'.sp = (cpu.sp + 255) % 256
       /\ AtOpcode(104) =>
              /\ cpu'.sp = (cpu.sp + 1) % 256
              /\ cpu'.a = Rd(ram, 256 + cpu'.sp)
              /\ ram' = ram
       /\ AtOpcode(40) =>
              /\ cpu'.sp = (cpu.sp + 1) % 256
              /\ cpu'.p = Or(Rd(ram, 256 + cpu'.sp), FLAG_UNUSED)
              /\ ram' = ram
       /\ (AtOpcode(0) \/ AtOpcode(8) \/ AtOpcode(40) \/ AtOpcode(64)
           \/ AtOpcode(72) \/ AtOpcode(104)) =>
              \A a \in DOMAIN ram \cup DOMAIN ram' :
                  Rd(ram', a) # Rd(ram, a) => a \in 256..511
       /\ (/\ AtOpcode(104) /\ cpu_steps >= 1 /\ cpu_prev.pc >= 32768
           /\ ImageByte(cpu_prev.pc) = 8 /\ cpu.pc = cpu_prev.pc + 1) =>
              /\ cpu'.a = Or(cpu_prev.p, 48)
              /\ cpu'.sp = cpu_prev.sp
      ]_vars

\* with SP = 0, PHP has written $FF at $0100 and wrapped SP to $FF, and PLA
\* has wrapped SP back to 0 and loaded the byte
C30_Witness ==
    /\ cpu_steps = 7 /\ ImageByte(cpu_prev.pc) = 104
    /\ cpu_prev.sp = 255 /\ cpu.sp = 0
    /\ cpu_prev.a = 207 /\ cpu.a = 255 /\ Rd(ram, 256) = 255

(***************************************************************************)
(* DuoVM programs run instruction by instruction                           *)
(***************************************************************************)
MaxAluProgSteps == 5

\* A <- 0xE000; D0 <- d0; D1 <- d1; CLC or SEC; one ALU opcode
DuoAluPrograms ==
    {<<0, 0, 224, 1, d0, 2, d1, c, op>> :
        d0 \in 0..255, d1 \in {0, 1, 127, 128, 250, 255}, c \in {64, 65},
        op \in 96..113}

\* the machine after load_hex of one of progs
InitDuoWith(progs) ==
    /\ \E prog \in progs :
          /\ memory = ProgramMemory(prog)
          /\ loaded = ProgramMemory(prog)
    /\ PC = 0 /\ A = 0 /\ T = 0 /\ D0 = 0 /\ D1 = 0 /\ C = FALSE
    /\ running = TRUE /\ waiting_key = FALSE /\ cur_x = 0 /\ cur_y = 0
    /\ vm_exit = "running" /\ duo_steps = 0
    /\ last_store = [addr |-> NoValue, value |-> NoValue]
    /\ duo_pc = "off" /\ burst_i = 0 /\ burst_inputs = 0
    /\ NesIdle
    /\ InesIdle
    /\ DrvIdle

\* one iteration of the burst loop of main, at most bound of them
DuoStepWithin(bound) ==
    /\ Live(VM) /\ running /\ ~waiting_key
    /\ duo_steps < bound
    /\ \E b \in Buttons : SetVM(step(VM, b))
    /\ duo_steps' = duo_steps + 1
    /\ UNCHANGED <<loaded, duo_pc, burst_i, burst_inputs>>
    /\ UNCHANGED <<nesVars, histVars, inesVars, drvVars>>

InitDuoAlu == InitDuoWith(DuoAluPrograms)

NextDuoAlu == DuoStepWithin(MaxAluProgSteps)

SpecDuoAlu == InitDuoAlu /\ [][NextDuoAlu]_vars

\* the opcode the next step fetches
DuoOpcode == Rd(memory, PC)

CarryBit == IF C THEN 1 ELSE 0

\* result and carry of the ALU operation op on D0, D1 and C
AluResult(op) ==
    CASE op \in {96, 97}   -> D0
      [] op \in {98, 99}   -> (D0 + D1 + CarryBit) % 256
      [] op \in {100, 101} -> (D0 - D1 - CarryBit + 256) % 256
      [] op \in {102, 103} -> And(D0, D1)
      [] op \in {104, 105} -> Or(D0, D1)
      [] op \in {106, 107} -> Xor(D0, D1)
      [] op \in {108, 109} -> 255 - D0
      [] op \in {110, 111} -> (2 * D0 + CarryBit) % 256
      [] op \in {112, 113} -> (D0 \div 2) + 128 * CarryBit

AluCarry(op) ==
    CASE op \in {98, 99}   -> D0 + D1 + CarryBit > 255
      [] op \in {100, 101} -> D0 - D1 - CarryBit < 0
      [] op \in {110, 111} -> D0 >= 128
      [] op \in {112, 113} -> D0 % 2 = 1
      [] OTHER             -> C

\* C31: for every D0, D1 and C the ALU opcodes 0x60-0x71 compute ADC, SBC,
\* ROL and ROR with the stated carry out, MOV, AND, OR, XOR and NOT leave C
\* unchanged, and the result goes to mem[A] when the low bit of the opcode
\* is 0 and to D0 when it is 1.
C31_AluResults ==
    [][(DuoOpcode \in 96..113 /\ A >= SRAM_START) =>
           /\ C' = AluCarry(DuoOpcode)
           /\ IF DuoOpcode % 2 = 0
              THEN memory' = Wr(memory, A, AluResult(DuoOpcode)) /\ D0' = D0
              ELSE D0' = AluResult(DuoOpcode) /\ memory' = memory
           /\ D1' = D1 /\ A' = A
      ]_vars

\* D0 = 0x2A, C = 1, ROL to mem[A] with A = 0xE000: mem[0xE000] = 0x55, C = 0
C31_Witness ==
    /\ duo_steps = 5 /\ Rd(loaded, 8) = 110 /\ D0 = 42 /\ A = 57344
    /\ Rd(loaded, 7) = 65 /\ Rd(memory, 57344) = 85 /\ ~C

MaxEmitSteps == 2600

\* emit; clear; JMP 0, and a program that moves the cursor to (35, 23)
\* through opcodes 0xA2 and 0xA3 before it emits and clears
DuoEmitPrograms ==
    { <<161, 164, 32, 0, 0>>,
      <<0, 10, 0, 162, 0, 11, 0, 163, 161, 164, 35, 23>> }

InitDuoEmit == InitDuoWith(DuoEmitPrograms)

NextDuoEmit == DuoStepWithin(MaxEmitSteps)

SpecDuoEmit == InitDuoEmit /\ [][NextDuoEmit]_vars

\* the number of emits the looping program has executed
Emits == (duo_steps + 2) \div 3

\* C32: an emit with the cursor inside the grid moves it in row-major order
\* (cur_x < 35: cur_x + 1, cur_y unchanged; cur_x = 35: cur_x = 0 and
\* cur_y = (cur_y + 1) mod 24), so 36 * 24 emits from (0, 0) bring the
\* cursor back to (0, 0); the clear opcode leaves the cursor unchanged.
C32_EmitRowMajor ==
    /\ [][/\ (DuoOpcode = 161 /\ cur_x < SCREEN_W /\ cur_y < SCREEN_H) =>
                 IF cur_x < SCREEN_W - 1
                 THEN cur_x' = cur_x + 1 /\ cur_y' = cur_y
                 ELSE cur_x' = 0 /\ cur_y' = (cur_y + 1) % SCREEN_H
          /\ DuoOpcode = 164 => cur_x' = cur_x /\ cur_y' = cur_y
         ]_vars
    /\ [](Rd(loaded, 0) = 161 =>
             ((cur_x = 0 /\ cur_y = 0) <=> Emits % (SCREEN_W * SCREEN_H) = 0))

\* the 864th emit of the looping program has put the cursor back at (0, 0)
C32_Witness ==
    /\ Rd(loaded, 0) = 161 /\ Emits = SCREEN_W * SCREEN_H
    /\ DuoOpcode = 164 /\ cur_x = 0 /\ cur_y = 0

(***************************************************************************)
(* PPU address/data port driven by a program: write a byte through $2006   *)
(* and $2007, address it again, read $2007 twice                           *)
(***************************************************************************)
MaxPortSteps == 12

\* high and low byte written to $2006: nametable addresses and mirrors of
\* them, the last two nametable addresses, palette addresses and mirrors
PortAddrs ==
    { <<32, 5>>, <<40, 5>>, <<48, 5>>, <<224, 5>>, <<54, 255>>, <<62, 254>>,
      <<62, 255>>, <<63, 5>>, <<63, 37>>, <<63, 255>> }

\* LDA #hi; STA $2006; LDA #lo; STA $2006; LDA #v; STA $2007; LDA #hi2;
\* STA $2006; LDA #lo2; STA $2006; LDA $2007; LDA $2007
PortImages ==
    {InstrImage(32768,
                <<169, w[1], 141, 6, 32, 169, w[2], 141, 6, 32,
                  169, v, 141, 7, 32,
                  169, r[1], 141, 6, 32, 169, r[2], 141, 6, 32,
                  173, 7, 32, 173, 7, 32>>, <<>>) :
        w \in PortAddrs, r \in PortAddrs, v \in {90, 165}}

InitPort == InitWith(PortImages)

NextPort == StepWithin(MaxPortSteps)

SpecPort == InitPort /\ [][NextPort]_vars

\* the address the program writes at, the byte it writes, and the address
\* it reads at
WrittenAddr == (ImageByte(32769) % 64) * 256 + ImageByte(32774)
WrittenByte == ImageByte(32779)
ReadAddr == (ImageByte(32784) % 64) * 256 + ImageByte(32789)

IsNametable(a) == a >= 8192 /\ a <= 16127
IsPalette(a) == a >= 16128 /\ a <= 16383

\* the parts of the round trip that hold at every address
PortWrites ==
    /\ cpu_steps = 4 => ppu.vram_addr = WrittenAddr
    /\ cpu_steps = 6 => ppu_read(NES, WrittenAddr) = WrittenByte
    /\ cpu_steps = 10 => ppu.vram_addr = ReadAddr
    /\ (/\ cpu_steps = 11 /\ IsPalette(WrittenAddr) /\ IsPalette(ReadAddr)
        /\ WrittenAddr % 32 = ReadAddr % 32) => cpu.a = WrittenByte

MaxCycleSteps == 6

\* LDX #$FF; LDY #$FF; STX $FF, then nothing (N set), SEC; LDA #$00 (C and
\* Z set) or LDA #$7F; ADC #$7F (V and N set)
CyclePrefixes ==
    {<<162, 255, 160, 255, 134, 255>> \o f :
        f \in {<<>>, <<56, 169, 0>>, <<169, 127, 105, 127>>}}

\* a prefix, then every opcode with operand bytes that cross a page when
\* indexed
CycleImages ==
    {InstrImage(32768, pre \o <<op>> \o operand, <<>>) :
        pre \in CyclePrefixes, op \in 0..255,
        operand \in {<<255, 0>>, <<128, 0>>, <<0, 128>>}}

\* either the CPU alone on one of CycleImages, or main in its frame loop
\* with the program that enables the NMI
InitCycles ==
    \/ InitWith(CycleImages)
    \/ /\ image = PrgImage(At(0, <<169, 128, 141, 0, 32, 8, 40, 76, 7, 128>>)
                           @@ At(16, <<64>>) @@ DrvVectors)
       /\ NesIs(PowerOn(parse_ines(image).cart))
       /\ load_state = "accepted" /\ prg_copied = PRG_ROM_BANK_SIZE
       /\ chr_copied = 0
       /\ bus_value = NoValue
       /\ HistInit
       /\ DuoIdle
       /\ frames = 1 /\ rendered = 0 /\ drv_pc = "loop"
       /\ last_scanline = 0 /\ iterations = 0 /\ nmi_raised = 0
       /\ nmi_serviced = 0 /\ wraps = 0
       /\ cpu_prev = cpu /\ twin = NoTwin

CycleStep == drv_pc = "off" /\ StepWithin(MaxCycleSteps)

NextCycles == CycleStep \/ DrvNmi \/ DrvIteration

SpecCycles == InitCycles /\ [][NextCycles]_vars

\* C34: every cpu_step adds at least 2 and at most 7 to cpu.cycles, so
\* cycles is strictly increasing across instructions, and servicing an NMI
\* adds nothing to cycles.
C34_CyclesPerStep ==
    [][/\ cpu_steps' = cpu_steps + 1 =>
              /\ cpu'.cycles - cpu.cycles \in 2..7
              /\ cpu'.cycles > cpu.cycles
       /\ nmi_serviced' = nmi_serviced + 1 => cpu'.cycles = cpu.cycles
      ]_vars

\* the NMI raised at scanline 241 has been serviced between two
\* instructions: PC is at the handler and cycles is what the 27394
\* instructions before it added to the 7 of reset
C34_Witness ==
    /\ nmi_serviced = 1 /\ drv_pc = "cpu" /\ iterations = 27394
    /\ cpu.pc = 32784 /\ cpu.cycles = 82190

(***************************************************************************)
(* main from the ROM file to the last frame                                *)
(***************************************************************************)
FramePrograms ==
    { \* opcode $02 (no case in cpu_step), then BRK through the zero IRQ
      \* vector into zeroed RAM: a BRK loop
      At(0, <<2>>) @@ DrvVectors,
      \* LDA #$80; STA $2000; PHP; PLP; JMP $8007, handler RTI at $8010:
      \* an NMI in every vertical blank
      At(0, <<169, 128, 141, 0, 32, 8, 40, 76, 7, 128>>) @@ At(16, <<64>>)
          @@ DrvVectors,
      \* JMP $8000
      At(0, <<76, 0, 128>>) @@ DrvVectors }

\* one-bank images of the programs, and a zero-filled image of three PRG
\* banks
FrameImages ==
    {PrgImage(code) : code \in FramePrograms}
    \cup {HeaderImage(78, 3, 0, 0, 0, BodySize(3, 0, 0))}

InitFrames ==
    /\ image \in FrameImages
    /\ load_state = "loaded" /\ prg_copied = 0 /\ chr_copied = 0
    /\ NesIdle
    /\ DuoIdle
    /\ frames \in FrameCounts /\ rendered = 0 /\ drv_pc = "boot"
    /\ last_scanline = 0 /\ iterations = 0 /\ nmi_raised = 0
    /\ nmi_serviced = 0 /\ wraps = 0
    /\ cpu_prev = cpu /\ twin = NoTwin

\* main from parse_ines to the head of the frame loop; the process is gone
\* when the copy aborts it or the modulus of cpu_read is zero at the reset
\* vector
FrameBoot ==
    /\ drv_pc = "boot"
    /\ LET r == parse_ines(image)
       IN  /\ r.ok
           /\ \E o \in OverflowOutcomes(r) :
                 /\ load_state' = o.state
                 /\ SetNES(Booted(NES, o))
                 /\ drv_pc' = IF o.state = "accepted"
                                 /\ o.cart.prg_rom_size # 0
                              THEN "loop"
                              ELSE "dead"
           /\ prg_copied' = r.prg_copied
           /\ chr_copied' = r.chr_copied
    /\ UNCHANGED <<bus_value, image, histVars, duoVars>>
    /\ UNCHANGED <<frames, rendered, last_scanline, iterations, nmi_raised,
                   nmi_serviced, wraps, cpu_prev, twin>>

NextFrames == FrameBoot \/ DrvNmi \/ DrvIteration

SpecFrames == InitFrames /\ [][NextFrames]_vars

\* ceil(k * 89342 / 3): the passes of the frame loop that k frames of PPU
\* cycles take
FrameBudget(k) == (k * PPU_FRAME + 2) \div 3

\* the k-th frame has been emitted once FrameBudget(k) passes are done
FramesInBudget ==
    \A k \in 1..frames : iterations >= FrameBudget(k) => rendered >= k

\* the frame loop has ended with every requested frame emitted, or the
\* process is alive before the loop or in a pass of it
FrameLoopGoesOn ==
    \/ drv_pc = "done" /\ rendered = frames
    \/ drv_pc = "boot" /\ load_state = "loaded"
    \/ drv_pc = "cpu"
    \/ drv_pc = "loop" /\ iterations < MaxIterations

\* C35: for every accepted ROM and every frame count n >= 1 the frame loop
\* terminates; whatever the CPU executes, the n-th frame is emitted after at
\* most ceil(n * 89342 / 3) passes of the loop.
C35_FrameLoopTerminates ==
    load_state = "accepted" => FramesInBudget /\ FrameLoopGoesOn

\* the same statement for the images whose banks fit the cartridge stores
FittingRomTerminates ==
    (prg_copied <= PRG_CAPACITY /\ chr_copied <= CHR_CAPACITY /\ drv_pc # "boot")
        => FramesInBudget /\ FrameLoopGoesOn

\* a fitting image ends its second frame on pass 59562 and not earlier
FittingRomLastPass ==
    /\ drv_pc = "done" /\ frames = 2 /\ rendered = 2
    /\ iterations = FrameBudget(2) /\ prg_copied = PRG_ROM_BANK_SIZE

(***************************************************************************)
(* NMI entry and the handler's RTI in the frame loop                       *)
(***************************************************************************)
MaxNmiPasses == 27400

\* LDA #$80; STA $2000; LDX #s; TXS; LDA #v; PHA; PLP; JMP $800C, with the
\* NMI handler at $8010: RTI; PHA, PLA, RTI; or PLA, LDA #0, PHA, RTI, which
\* replaces the status byte NMI pushed
NmiImages ==
    {PrgImage(At(0, <<169, 128, 141, 0, 32, 162, sv[1], 154, 169, sv[2], 72,
                      40, 76, 12, 128>>) @@ At(16, h) @@ DrvVectors) :
        sv \in {<<1, 255>>, <<255, 0>>, <<0, 207>>},
        h \in {<<64>>, <<72, 104, 64>>}}
    \cup {PrgImage(At(0, <<169, 128, 141, 0, 32, 162, 255, 154, 169, 255, 72,
                           40, 76, 12, 128>>)
                   @@ At(16, <<104, 169, 0, 72, 64>>) @@ DrvVectors)}

InitNmi ==
    /\ \E img \in NmiImages :
          /\ image = img
          /\ NesIs(PowerOn(parse_ines(img).cart))
    /\ load_state = "accepted" /\ prg_copied = PRG_ROM_BANK_SIZE
    /\ chr_copied = 0
    /\ bus_value = NoValue
    /\ HistInit
    /\ DuoIdle
    /\ frames = 1 /\ rendered = 0 /\ drv_pc = "loop"
    /\ last_scanline = 0 /\ iterations = 0 /\ nmi_raised = 0
    /\ nmi_serviced = 0 /\ wraps = 0
    /\ cpu_prev = cpu /\ twin = NoTwin

\* the NMI check at the head of a pass finds nmi_triggered set; cpu_prev
\* keeps the registers the NMI interrupted
NmiEntry ==
    /\ drv_pc = "loop" /\ iterations < MaxNmiPasses
    /\ ppu.nmi_triggered
    /\ SetNES(service_nmi(NES))
    /\ bus_value' = NoValue
    /\ nmi_serviced' = nmi_serviced + 1
    /\ drv_pc' = "cpu"
    /\ cpu_prev' = cpu
    /\ UNCHANGED <<frames, rendered, last_scanline, iterations, nmi_raised,
                   wraps, twin>>
    /\ UNCHANGED <<histVars, inesVars, duoVars>>

NmiPass == iterations < MaxNmiPasses /\ DrvIteration

NextNmi == NmiEntry \/ NmiPass

SpecNmi == InitNmi /\ [][NextNmi]_vars

\* the three bytes above SP are the ones the NMI that interrupted cpu_prev
\* pushed, and SP is where that NMI left it
StackAsNmiLeftIt ==
    /\ nmi_serviced >= 1
    /\ cpu.sp = (cpu_prev.sp + 253) % 256
    /\ Popped(1) = And(cpu_prev.p, 255 - FLAG_BREAK)
    /\ Popped(2) = cpu_prev.pc % 256
    /\ Popped(3) = cpu_prev.pc \div 256

\* C36: an NMI serviced at (PC, SP, P) pushes PC high, PC low and P with
\* bit 4 cleared; when the three bytes are untouched, the next RTI restores
\* PC and SP exactly and sets P to the pre-NMI P with bit 4 cleared.
C36_NmiRtiRoundTrip ==
    [][/\ nmi_serviced' = nmi_serviced + 1 =>
              /\ Rd(ram', PushedAt(0)) = cpu.pc \div 256
              /\ Rd(ram', PushedAt(1)) = cpu.pc % 256
              /\ Rd(ram', PushedAt(2)) = And(cpu.p, 255 - FLAG_BREAK)
              /\ cpu'.sp = (cpu.sp + 253) % 256
       /\ (/\ AtOpcode(64) /\ cpu_steps' = cpu_steps + 1
           /\ StackAsNmiLeftIt) =>
              /\ cpu'.pc = cpu_prev.pc
              /\ cpu'.sp = cpu_prev.sp
              /\ cpu'.p = And(cpu_prev.p, 255 - FLAG_BREAK)
      ]_vars

\* the NMI that interrupted JMP $800C with SP = 1 and P = $FF wrapped the
\* stack, the handler pushed and pulled A below the three bytes, and its
\* RTI has returned to $800C with SP = 1 and P = $EF
C36_Witness ==
    /\ nmi_serviced = 1 /\ ImageByte(32784) = 72 /\ cpu_prev.pc = 32780
    /\ cpu_prev.sp = 1 /\ cpu_prev.p = 255
    /\ cpu.pc = 32780 /\ cpu.sp = 1 /\ cpu.p = 239
    /\ Rd(ram, 257) = 128 /\ Rd(ram, 256) = 12 /\ Rd(ram, 511) = 239
    /\ iterations > 27394

(***************************************************************************)
(* DuoVM at the top of its address space                                   *)
(***************************************************************************)
MaxWrapSteps == 8

\* load_hex of a record at 0000 and a record at FFFD. The low record is
\* JMP e, or A <- $FFFF; D0 <- $20; MOV -> mem[A]; JMP e, with e one of
\* $FFFD, $FFFE, $FFFF; the top record holds three of the bytes A <- imm16,
\* D0 <- imm8, JMP, JC, SEC, MOV -> mem[A] and $FF (no instruction)
WrapMemories ==
    {Cells(At(0, low \o <<32, e, 255>>) @@ At(65533, top)) :
        low \in {<<>>, <<0, 255, 255, 1, 32, 96>>},
        e \in {253, 254, 255},
        top \in [1..3 -> {0, 1, 32, 33, 65, 96, 255}]}

InitDuoWrap ==
    /\ \E m \in WrapMemories : memory = m /\ loaded = m
    /\ PC = 0 /\ A = 0 /\ T = 0 /\ D0 = 0 /\ D1 = 0 /\ C = FALSE
    /\ running = TRUE /\ waiting_key = FALSE /\ cur_x = 0 /\ cur_y = 0
    /\ vm_exit = "running" /\ duo_steps = 0
    /\ last_store = [addr |-> NoValue, value |-> NoValue]
    /\ duo_pc = "off" /\ burst_i = 0 /\ burst_inputs = 0
    /\ NesIdle
    /\ InesIdle
    /\ DrvIdle

NextDuoWrap == DuoStepWithin(MaxWrapSteps)

SpecDuoWrap == InitDuoWrap /\ [][NextDuoWrap]_vars

\* the 16-bit operand whose low byte is at $FFFF and whose high byte is at
\* $0000
TopOperand == Rd(memory, 65535) + 256 * Rd(memory, 0)

\* C37: the out-of-bounds exit is unreachable, every address passed to
\* mem_read and mem_write being below 65536; a 16-bit operand read at $FFFF
\* takes its high byte from $0000; PC wraps from $FFFF to $0000 without
\* error.
C37_NoOutOfBounds ==
    /\ [](/\ vm_exit # "oob"
          /\ \A a \in step_reads(VM) : a \in 0..(MEM_SIZE - 1)
          /\ last_store.addr \in {NoValue} \cup 0..(MEM_SIZE - 1))
    /\ [][PC = 65534 =>
              /\ DuoOpcode = 0 => A' = TopOperand /\ PC' = 1
              /\ DuoOpcode = 32 => PC' = TopOperand
              /\ DuoOpcode = 33 => PC' = (IF C THEN TopOperand ELSE 1)
         ]_vars
    /\ [][(PC = 65535 /\ DuoOpcode \notin {0, 1, 2, 8, 32, 33, 34}) =>
              PC' = 0 /\ vm_exit' # "oob"
         ]_vars

\* A <- imm16 at $FFFE has read its operand from $FFFF (SEC, $41) and
\* $0000 (JMP, $20): A is $2041 and PC has wrapped to 1
C37_Witness ==
    /\ duo_steps = 2 /\ Rd(loaded, 65534) = 0 /\ Rd(loaded, 65535) = 65
    /\ Rd(loaded, 1) = 254 /\ A = 8257 /\ PC = 1 /\ vm_exit = "running"

(***************************************************************************)
(* The driver loop of DuoVM run without end                                *)
(***************************************************************************)
\* A <- 0xE000; read button; JMP 3
\* JMP 0
\* read button -> mem[0]
\* A <- 0xE000; read button; A <- 0x0005; D0 <- 1; MOV -> mem[A]
\* A <- 0xE000; D1 <- d; D0 <- mem[A]; ADD -> mem[A]; JMP 5
ForeverPrograms ==
    { <<0, 0, 224, 160, 32, 3, 0>>,
      <<32, 0, 0>>,
      <<160>>,
      <<0, 0, 224, 160, 0, 5, 0, 1, 1, 96>> }
    \cup {<<0, 0, 224, 2, d, 3, 98, 32, 5, 0>> : d \in {1, 2}}

MaxForeverCount == 2

InitDuoForever == InitDuoWith(ForeverPrograms)

\* one iteration of the burst loop of main. The instructions are counted
\* modulo MaxForeverCount, so the run has no end of its own
DuoForeverStep ==
    /\ Live(VM) /\ running /\ ~waiting_key
    /\ \E b \in Buttons : SetVM(step(VM, b))
    /\ duo_steps' = (duo_steps + 1) % MaxForeverCount
    /\ UNCHANGED <<loaded, duo_pc, burst_i, burst_inputs>>
    /\ UNCHANGED <<nesVars, histVars, inesVars, drvVars>>

NextDuoForever == DuoForeverStep

\* the process runs whenever it can: it is the only thread, and read_button
\* returns once a key arrives
SpecDuoForever ==
    InitDuoForever /\ [][NextDuoForever]_vars /\ WF_vars(NextDuoForever)

\* C38: the DuoVM never stops normally: running is never cleared and
\* waiting_key is false at every instruction boundary, so the driver loop
\* executes instructions forever unless a store below 0xE000 takes the fatal
\* exit; a program that performs no ROM write never terminates.
C38_NeverStops ==
    /\ [](/\ running
          /\ Live(VM) => ~waiting_key
          /\ ~Live(VM) => /\ vm_exit = "rom_write"
                          /\ last_store.addr \in 0..(SRAM_START - 1))
    /\ (<>(vm_exit = "rom_write") \/ []<><<DuoForeverStep>>_vars)

\* the adding loop has gone round until the cell at 0xE000 wrapped past 255
\* with the carry set, and the machine is live at the head of the loop with
\* running set and waiting_key clear
C38_Witness ==
    /\ Rd(loaded, 4) = 2 /\ Rd(loaded, 6) = 98 /\ PC = 5
    /\ Rd(memory, 57344) = 1 /\ C /\ D0 = 255
    /\ Live(VM) /\ running /\ ~waiting_key

====
